---- MODULE Spec2Model ----
(***************************************************************************)
(* mlog (Monday logging CLI): one command per process invocation.          *)
(* A behaviour is one invocation: Init draws the command line, the two     *)
(* configuration documents as loadTOML decodes them and the state of the   *)
(* files; the actions are the steps of the command's handler, split where  *)
(* the handler blocks on the remote service or on the file system.         *)
(* Go strings are TLA+ strings: len(s) is Len(s), s[i:j] is                *)
(* SubSeq(s, i+1, j), fmt.Sprintf is concatenation.                        *)
(***************************************************************************)
EXTENDS Integers, Sequences, FiniteSets, TLC

VARIABLES
    cmd,        \* the command of this invocation (cli.Command.Name)
    debug,      \* the global flag --debug / -d
    day,        \* create-one: first argument, dayYYYYMMDD
    hours,      \* create-one: third argument
    arg,        \* first argument of the other commands (month, pulse id, board id)
    userDoc,    \* what loadTOML(userConfFilePath) yields: [err, conf]
    boardsDoc,  \* what loadTOML(boardsConfFilePath) yields: [err, conf]
    pathsErr,   \* which path xdg fails to locate: "none", "user" or "boards"
    pc,         \* position of the handler
    conf,       \* loadConf's result once loaded: [user, boards]
    call,       \* arguments createOne passed to CreateLogItem (ok = it was called)
    lookups,    \* keys createOne looked up in the boards mapping, in order
    requests,   \* remote API requests issued so far, in order
    reply,      \* what client.Query / client.Mutate returned (NoReply: nothing yet)
    err,        \* the error the action returned (NilErr: none)
    out,        \* lines printed on standard output
    panicked,   \* a Go runtime panic ended the process
    boardsFile, \* update: content of boards.toml, a sequence of chunks
    tmpFile,    \* update: content of boards.toml.tmp (Absent: no such file)
    httpResp,   \* update: the response of http.Get, [status, kind, size]
    body,       \* update: chunks of the response body not yet read
    copied,     \* update: chunks io.Copy has written (n)
    observed,   \* update: what a concurrent reader of boards.toml last decoded
    exitCode,   \* <<exit status>> of the process, Running until it ends
    stderr,     \* what cli.HandleExitCoder printed on cli.ErrWriter
    updaters,   \* two concurrent updates: each process's [pc, size, n, fd, err]
    disk        \* two concurrent updates: the directory and the files' contents

vars == <<cmd, debug, day, hours, arg, userDoc, boardsDoc, pathsErr, pc, conf, call,
          lookups, requests, reply, err, out, panicked, boardsFile, tmpFile, httpResp,
          body, copied, observed, exitCode, stderr, updaters, disk>>

(***************************************************************************)
(* Strings.                                                                *)
(***************************************************************************)
Char(s, i) == IF 1 <= i /\ i <= Len(s) THEN SubSeq(s, i, i) ELSE ""

Contains(s, sub) ==
    \E i \in 1..(Len(s) - Len(sub) + 1) : SubSeq(s, i, i + Len(sub) - 1) = sub

Digits == {"0", "1", "2", "3", "4", "5", "6", "7", "8", "9"}

DigitVal(c) ==
    CASE c = "0" -> 0 [] c = "1" -> 1 [] c = "2" -> 2 [] c = "3" -> 3
      [] c = "4" -> 4 [] c = "5" -> 5 [] c = "6" -> 6 [] c = "7" -> 7
      [] c = "8" -> 8 [] c = "9" -> 9

\* Index just after the longest run of decimal digits of s that starts at i.
RECURSIVE DigitsEnd(_, _)
DigitsEnd(s, i) == IF Char(s, i) \in Digits THEN DigitsEnd(s, i + 1) ELSE i

Lower(c) ==
    CASE c = "I" -> "i" [] c = "N" -> "n" [] c = "F" -> "f" [] c = "A" -> "a"
      [] c = "T" -> "t" [] c = "Y" -> "y" [] c = "E" -> "e"
      [] OTHER -> c

RECURSIVE LowerStr(_)
LowerStr(s) == IF s = "" THEN "" ELSE Lower(Char(s, 1)) \o LowerStr(SubSeq(s, 2, Len(s)))

(***************************************************************************)
(* Errors (error.go).  An error is [type, msg, exitCode, cause]; cause is  *)
(* the wrapped error's text, "" when nothing is wrapped.                   *)
(***************************************************************************)
NilErr == [type |-> "nil", msg |-> "", exitCode |-> 0, cause |-> ""]

\* Faulty variant of newCLIError: the wrapped error is dropped.
BrokenCLIError(cause, msg) ==
    [type |-> "CLIError", msg |-> msg, exitCode |-> 1, cause |-> ""]

newCLIError(cause, msg) ==
    [type |-> "CLIError", msg |-> msg, exitCode |-> 1, cause |-> cause]

WithStackF(msg) == newCLIError("", msg)

WrapWithStackF(cause, msg) == newCLIError(cause, msg)

(***************************************************************************)
(* strconv, as the handlers use it.  Hexadecimal mantissas and digit       *)
(* separators ('_') are not modelled: no input below contains 'x' or '_'.  *)
(***************************************************************************)
\* strconv.Atoi accepts an optional sign followed by one or more digits.
AtoiOK(s) ==
    LET i == IF Char(s, 1) \in {"+", "-"} THEN 2 ELSE 1
    IN  /\ i <= Len(s)
        /\ DigitsEnd(s, i) = Len(s) + 1

RECURSIVE DecVal(_, _, _)
DecVal(s, i, acc) ==
    IF i > Len(s) THEN acc ELSE DecVal(s, i + 1, acc * 10 + DigitVal(Char(s, i)))

AtoiVal(s) ==
    IF Char(s, 1) = "-" THEN 0 - DecVal(s, 2, 0)
    ELSE IF Char(s, 1) = "+" THEN DecVal(s, 2, 0)
    ELSE DecVal(s, 1, 0)

AtoiErr(s) == "strconv.Atoi: parsing \"" \o s \o "\": invalid syntax"

\* strconv's special(): "nan", or an optionally signed "inf" / "infinity",
\* matched without regard to case.
IsSpecialFloat(s) ==
    LET signed == Char(s, 1) \in {"+", "-"}
        rest   == LowerStr(IF signed THEN SubSeq(s, 2, Len(s)) ELSE s)
    IN  \/ rest \in {"inf", "infinity"}
        \/ ~signed /\ rest = "nan"

\* strconv's readFloat(), base 10: sign, digits with at most one point and
\* at least one digit, then an optional exponent with at least one digit;
\* the whole string must be consumed.
IsDecimalFloat(s) ==
    LET i0   == IF Char(s, 1) \in {"+", "-"} THEN 2 ELSE 1
        i1   == DigitsEnd(s, i0)
        dot  == Char(s, i1) = "."
        i2   == IF dot THEN DigitsEnd(s, i1 + 1) ELSE i1
        nDig == (i1 - i0) + (IF dot THEN i2 - (i1 + 1) ELSE 0)
        exp  == Char(s, i2) \in {"e", "E"}
        j0   == IF Char(s, i2 + 1) \in {"+", "-"} THEN i2 + 2 ELSE i2 + 1
        j1   == DigitsEnd(s, j0)
        end  == IF exp THEN j1 ELSE i2
    IN  /\ nDig > 0
        /\ exp => j1 > j0
        /\ end = Len(s) + 1

\* Faulty variant of ParseFloatOK: no validation of the hours.
AcceptAnyFloat(s) == TRUE

\* err == nil of strconv.ParseFloat(s, 64).
ParseFloatOK(s) == IsSpecialFloat(s) \/ IsDecimalFloat(s)

ParseFloatErr(s) == "strconv.ParseFloat: parsing \"" \o s \o "\": invalid syntax"

(***************************************************************************)
(* Configuration documents (main.go: UserConf, BoardsConf, Month).         *)
(* A map is a function on the set of its keys; reading an absent key       *)
(* yields the zero value, as in Go.                                        *)
(***************************************************************************)
ZeroUserConf == [APIAccessToken |-> "", LoggingUserID |-> ""]

UserConfs ==
    [APIAccessToken : {"", "tok"}, LoggingUserID : {"", "42"}]

\* loadTOML(userConfFilePath, &userConf): the error text ("" = nil) and the
\* decoded object (zero-valued when the file is missing or malformed).
UserDocs ==
    {[err |-> "open config.toml: no such file or directory", conf |-> ZeroUserConf]}
        \cup {[err |-> "", conf |-> c] : c \in UserConfs}

MonthKeys == {"2023-09"}

DayKeys == {"-05", "05"}

BoardIDs == {"", "abc", "1234567890", "077"}

GroupIDs == {"", "tue_sep_5", "other"}

DaysMaps == UNION {[K -> GroupIDs] : K \in SUBSET DayKeys}

Months == [BoardID : BoardIDs, Days : DaysMaps]

MonthsMaps == UNION {[K -> Months] : K \in SUBSET MonthKeys}

NoMonths == CHOOSE m \in MonthsMaps : DOMAIN m = {}

ZeroBoardsConf ==
    [PersonColumnID |-> "", HoursColumnID |-> "", Description |-> "", Months |-> NoMonths]

ColumnPairs == {<<"person", "numbers">>, <<"", "numbers">>, <<"person", "">>}

BoardsConfs ==
    {[PersonColumnID |-> p[1], HoursColumnID |-> p[2], Description |-> "", Months |-> m] :
        p \in ColumnPairs, m \in MonthsMaps}

BoardsDocs ==
    {[err |-> "toml: expected character =", conf |-> ZeroBoardsConf]}
        \cup {[err |-> "", conf |-> c] : c \in BoardsConfs}

\* month := boardsConf.Months[monthYYYYMM]; month == nil
MonthIsNil(boardsConf, monthYYYYMM) == monthYYYYMM \notin DOMAIN boardsConf.Months

MonthOf(boardsConf, monthYYYYMM) == boardsConf.Months[monthYYYYMM]

\* Faulty variant of DayGroupOf: a missing day falls back to a default group.
DayGroupOrDefault(month, dayDD) ==
    IF dayDD \in DOMAIN month.Days /\ month.Days[dayDD] # "" THEN month.Days[dayDD]
    ELSE "topics"

\* Faulty variant of DayGroupOf: the day map is read under the bare day.
DayGroupByLastTwo(month, dayDD) ==
    IF SubSeq(dayDD, 2, 3) \in DOMAIN month.Days THEN month.Days[SubSeq(dayDD, 2, 3)] ELSE ""

\* month.Days[dayDD]
DayGroupOf(month, dayDD) ==
    IF dayDD \in DOMAIN month.Days THEN month.Days[dayDD] ELSE ""

msgMonthBoardIDNotFound(m) ==
    "\"months." \o m \o ".board_id\": not found in boards configuration. Exiting."

msgDayGroupNotFound(m, d) ==
    "\"month." \o m \o ".days." \o d \o "\": not found in boards configuration. Exiting."

\* (The source quotes the command in backquotes, which a TLA+ string cannot hold.)
msgUnableToParseUserConf ==
    "Unable to parse user configuration file.\nRun 'mlog setup' for error details."

msgUnableToParseBoardsConf ==
    "Unable to parse boards configuration file.\nRun 'mlog setup' for error details."

\* Faulty variant of loadConf: the user fields are not checked.
loadConfUncheckedUser(uDoc, bDoc) ==
    LET fail(e) == [user |-> ZeroUserConf, boards |-> ZeroBoardsConf, err |-> e]
    IN  IF uDoc.err # "" THEN fail(newCLIError(uDoc.err, msgUnableToParseUserConf))
        ELSE IF bDoc.err # "" THEN fail(newCLIError(bDoc.err, msgUnableToParseBoardsConf))
        ELSE IF bDoc.conf.PersonColumnID = "" \/ bDoc.conf.HoursColumnID = ""
            THEN fail(newCLIError("", msgUnableToParseBoardsConf))
        ELSE [user |-> uDoc.conf, boards |-> bDoc.conf, err |-> NilErr]

\* Faulty variant of loadConf: the column ids are not checked.
loadConfUncheckedBoards(uDoc, bDoc) ==
    LET fail(e) == [user |-> ZeroUserConf, boards |-> ZeroBoardsConf, err |-> e]
    IN  IF uDoc.err # "" THEN fail(newCLIError(uDoc.err, msgUnableToParseUserConf))
        ELSE IF uDoc.conf.APIAccessToken = "" \/ uDoc.conf.LoggingUserID = ""
            THEN fail(newCLIError("", msgUnableToParseUserConf))
        ELSE IF bDoc.err # "" THEN fail(newCLIError(bDoc.err, msgUnableToParseBoardsConf))
        ELSE [user |-> uDoc.conf, boards |-> bDoc.conf, err |-> NilErr]

\* Faulty variant of loadConf: a boards document without months is rejected.
loadConfRequiresMonths(uDoc, bDoc) ==
    LET fail(e) == [user |-> ZeroUserConf, boards |-> ZeroBoardsConf, err |-> e]
    IN  IF uDoc.err # "" THEN fail(newCLIError(uDoc.err, msgUnableToParseUserConf))
        ELSE IF uDoc.conf.APIAccessToken = "" \/ uDoc.conf.LoggingUserID = ""
            THEN fail(newCLIError("", msgUnableToParseUserConf))
        ELSE IF bDoc.err # "" THEN fail(newCLIError(bDoc.err, msgUnableToParseBoardsConf))
        ELSE IF \/ bDoc.conf.PersonColumnID = "" \/ bDoc.conf.HoursColumnID = ""
                \/ DOMAIN bDoc.conf.Months = {}
            THEN fail(newCLIError("", msgUnableToParseBoardsConf))
        ELSE [user |-> uDoc.conf, boards |-> bDoc.conf, err |-> NilErr]

\* loadConf(): [user, boards, err].
loadConf(uDoc, bDoc) ==
    LET fail(e) == [user |-> ZeroUserConf, boards |-> ZeroBoardsConf, err |-> e]
    IN  IF uDoc.err # "" THEN fail(newCLIError(uDoc.err, msgUnableToParseUserConf))
        ELSE IF uDoc.conf.APIAccessToken = "" \/ uDoc.conf.LoggingUserID = ""
            THEN fail(newCLIError("", msgUnableToParseUserConf))
        ELSE IF bDoc.err # "" THEN fail(newCLIError(bDoc.err, msgUnableToParseBoardsConf))
        ELSE IF bDoc.conf.PersonColumnID = "" \/ bDoc.conf.HoursColumnID = ""
            THEN fail(newCLIError("", msgUnableToParseBoardsConf))
        ELSE [user |-> uDoc.conf, boards |-> bDoc.conf, err |-> NilErr]


(***************************************************************************)
(* Remote API client (error.go: MondayAPIClient).  A request is            *)
(* [op, board_id, ids, group_id, item_name, column_values]; the service's  *)
(* answer to it is [err, ...] with err the transport / service error text  *)
(* ("" = nil) that client.Query / client.Mutate returns.                   *)
(***************************************************************************)
msgContacting == "A problem occurred when contacting monday.com. Exiting."

msgContactingVerify ==
    "A problem occurred when contacting monday.com. Please verify on monday.com whether a log entry was created or not. Exiting."

msgHoursNotNumber(h) ==
    "hours = " \o h \o " (third arg): unable to parse hours as a number. Exiting."

NewMondayAPIClient(userConf, boardsConf) ==
    [loggingUserID  |-> userConf.LoggingUserID,
     personColumnID |-> boardsConf.PersonColumnID,
     hoursColumnID  |-> boardsConf.HoursColumnID]

NoRequest ==
    [op |-> "none", board_id |-> 0, ids |-> "", group_id |-> "", item_name |-> "",
     column_values |-> ""]

\* fmt.Sprintf(`{"%s":"%s","%s":%s}`, personColumnID, loggingUserID, hoursColumnID, hours)
columnValues(m, h) ==
    "{\"" \o m.personColumnID \o "\":\"" \o m.loggingUserID \o "\",\""
        \o m.hoursColumnID \o "\":" \o h \o "}"

\* CreateLogItem up to client.Mutate: the validation of hours and the
\* variables of the mutation.  [err, req]; err # NilErr: returned before Mutate.
CreateLogItemPrepare(m, boardID, groupID, itemName, h) ==
    IF ~ParseFloatOK(h)
    THEN [err |-> WrapWithStackF(ParseFloatErr(h), msgHoursNotNumber(h)), req |-> NoRequest]
    ELSE [err |-> NilErr,
          req |-> [op |-> "create_item", board_id |-> boardID, ids |-> "",
                   group_id |-> groupID, item_name |-> itemName,
                   column_values |-> columnValues(m, h)]]

\* Faulty variant of CreateLogItemReturn: the plain contacting message.
CreateLogItemReturnPlainMessage(resp) ==
    IF resp.err # ""
    THEN [err |-> WrapWithStackF(resp.err, msgContacting), link |-> ""]
    ELSE [err |-> NilErr, link |-> resp.link]

\* CreateLogItem after client.Mutate returned: [err, link].
CreateLogItemReturn(resp) ==
    IF resp.err # ""
    THEN [err |-> WrapWithStackF(resp.err, msgContactingVerify), link |-> ""]
    ELSE [err |-> NilErr, link |-> resp.link]

\* Faulty variant of QueryRequest: the request is sent as the mutation.
QueryRequestAsMutation(op, id) ==
    [op |-> "create_item", board_id |-> 0, ids |-> id, group_id |-> "", item_name |-> "",
     column_values |-> ""]

QueryRequest(op, id) ==
    [op |-> op, board_id |-> 0, ids |-> id, group_id |-> "", item_name |-> "",
     column_values |-> ""]

\* The three queries after client.Query returned: [err, panic, value].  list is
\* the decoded top-level list (boards, boards with items, items); the code
\* returns &list[0], which panics (index out of range) on an empty list.
FirstOrPanic(resp, list, zero) ==
    IF resp.err # ""
    THEN [err |-> WrapWithStackF(resp.err, msgContacting), panic |-> FALSE, value |-> zero]
    ELSE IF Len(list) = 0
    THEN [err |-> NilErr, panic |-> TRUE, value |-> zero]
    ELSE [err |-> NilErr, panic |-> FALSE, value |-> list[1]]

(***************************************************************************)
(* create-one (main.go: createOne).                                        *)
(***************************************************************************)
msgDayFormat(d) ==
    "day = " \o d \o " (first arg): provided day is not in format yyyy-mm-dd. Exiting."

msgBoardIDNotNumber(m) == "\"months." \o m \o ".board_id\": not a number. Exiting."

\* Faulty variant of DayFormatOK: longer dates pass.
DayFormatLenient(d) == Len(d) >= 10

\* len(dayYYYYMMDD) != 10 is the negation of this.
DayFormatOK(d) == Len(d) = 10

\* monthYYYYMM := dayYYYYMMDD[0:7]
MonthKeyOf(d) == SubSeq(d, 1, 7)

\* Faulty variant of DayKeyOf: dayYYYYMMDD[8:10].
DayKeyLastTwo(d) == SubSeq(d, 9, 10)

\* dayDD := dayYYYYMMDD[7:10]
DayKeyOf(d) == SubSeq(d, 8, 10)

ItemName == "Pursued activities"

\* Faulty variant of createOneResolve: the day is looked up before the board
\* id is converted.
createOneResolveDayFirst(boardsConf, d) ==
    LET fail(e, l) == [err |-> e, lookups |-> l, boardID |-> 0, groupID |-> ""]
        mKey  == MonthKeyOf(d)
        dKey  == DayKeyOf(d)
        month == MonthOf(boardsConf, mKey)
        lm    == << <<"month", mKey>> >>
        ld    == << <<"month", mKey>>, <<"day", dKey>> >>
    IN  IF ~DayFormatOK(d) THEN fail(WithStackF(msgDayFormat(d)), <<>>)
        ELSE IF Cardinality(DOMAIN boardsConf.Months) = 0
            THEN fail(WithStackF(msgMonthBoardIDNotFound(mKey)), <<>>)
        ELSE IF MonthIsNil(boardsConf, mKey) \/ month.BoardID = ""
            THEN fail(WithStackF(msgMonthBoardIDNotFound(mKey)), lm)
        ELSE IF Cardinality(DOMAIN month.Days) = 0
            THEN fail(WithStackF(msgDayGroupNotFound(mKey, dKey)), lm)
        ELSE IF DayGroupOf(month, dKey) = ""
            THEN fail(WithStackF(msgDayGroupNotFound(mKey, dKey)), ld)
        ELSE IF ~AtoiOK(month.BoardID)
            THEN fail(WrapWithStackF(AtoiErr(month.BoardID), msgBoardIDNotNumber(mKey)), ld)
        ELSE [err |-> NilErr, lookups |-> ld, boardID |-> AtoiVal(month.BoardID),
              groupID |-> DayGroupOf(month, dKey)]

\* createOne up to the call of CreateLogItem: [err, lookups, boardID, groupID].
\* lookups lists the keys read from the boards mapping: <<"month", key>> for
\* boardsConf.Months[key], <<"day", key>> for month.Days[key].
createOneResolve(boardsConf, d) ==
    LET fail(e, l) == [err |-> e, lookups |-> l, boardID |-> 0, groupID |-> ""]
        mKey  == MonthKeyOf(d)
        dKey  == DayKeyOf(d)
        month == MonthOf(boardsConf, mKey)
        lm    == << <<"month", mKey>> >>
        ld    == << <<"month", mKey>>, <<"day", dKey>> >>
    IN  IF ~DayFormatOK(d) THEN fail(WithStackF(msgDayFormat(d)), <<>>)
        ELSE IF Cardinality(DOMAIN boardsConf.Months) = 0
            THEN fail(WithStackF(msgMonthBoardIDNotFound(mKey)), <<>>)
        ELSE IF MonthIsNil(boardsConf, mKey) \/ month.BoardID = ""
            THEN fail(WithStackF(msgMonthBoardIDNotFound(mKey)), lm)
        ELSE IF ~AtoiOK(month.BoardID)
            THEN fail(WrapWithStackF(AtoiErr(month.BoardID), msgBoardIDNotNumber(mKey)), lm)
        ELSE IF Cardinality(DOMAIN month.Days) = 0
            THEN fail(WithStackF(msgDayGroupNotFound(mKey, dKey)), lm)
        ELSE IF DayGroupOf(month, dKey) = ""
            THEN fail(WithStackF(msgDayGroupNotFound(mKey, dKey)), ld)
        ELSE [err |-> NilErr, lookups |-> ld, boardID |-> AtoiVal(month.BoardID),
              groupID |-> DayGroupOf(month, dKey)]


(***************************************************************************)
(* get-board-items (main.go: cliGetBoardItems).                            *)
(***************************************************************************)
\* Upper bound on the number of items of the page the service returns.
MaxItems == 3

\* The characters of the titles and ids below, in byte order.
Alphabet == " -0123456789ABCDEFGHIJKLMNOPQRSTUVWXYZ_abcdefghijklmnopqrstuvwxyz"

\* The position of each character in Alphabet.
CodeOf ==
    [c \in {Char(Alphabet, i) : i \in 1..Len(Alphabet)} |->
        CHOOSE i \in 1..Len(Alphabet) : Char(Alphabet, i) = c]

Code(c) == CodeOf[c]

\* cmp.Compare on strings: -1, 0, +1 by bytewise lexicographic order.
RECURSIVE StrCompare(_, _)
StrCompare(a, b) ==
    IF a = "" /\ b = "" THEN 0
    ELSE IF a = "" THEN 0 - 1
    ELSE IF b = "" THEN 1
    ELSE IF Code(Char(a, 1)) < Code(Char(b, 1)) THEN 0 - 1
    ELSE IF Code(Char(a, 1)) > Code(Char(b, 1)) THEN 1
    ELSE StrCompare(SubSeq(a, 2, Len(a)), SubSeq(b, 2, Len(b)))

\* The comparison of the day suffix shared by both comparators: aGroup[8],
\* then aGroup[9]; 0 when the titles are not both 10 bytes long or tie.
DaySuffixCompare(aGroup, bGroup) ==
    IF Len(aGroup) = 10 /\ Len(bGroup) = 10
    THEN IF Code(Char(aGroup, 9)) > Code(Char(bGroup, 9)) THEN 1
         ELSE IF Code(Char(aGroup, 9)) < Code(Char(bGroup, 9)) THEN 0 - 1
         ELSE IF Code(Char(aGroup, 10)) > Code(Char(bGroup, 10)) THEN 1
         ELSE IF Code(Char(aGroup, 10)) < Code(Char(bGroup, 10)) THEN 0 - 1
         ELSE 0
    ELSE 0

\* Faulty variant of itemCmp: the fallback compares the titles.
itemCmpByTitle(a, b) ==
    LET c == DaySuffixCompare(a.Title, b.Title)
    IN  IF c # 0 THEN c ELSE StrCompare(a.Title, b.Title)

\* The comparator cliGetBoardItems hands to slices.SortFunc.
itemCmp(a, b) ==
    LET c == DaySuffixCompare(a.Title, b.Title)
    IN  IF c # 0 THEN c ELSE StrCompare(a.ID, b.ID)

Swap(data, i, j) == [data EXCEPT ![i] = data[j], ![j] = data[i]]

\* slices.SortFunc on at most 12 elements is an insertion sort.
RECURSIVE SinkItem(_, _)
SinkItem(data, j) ==
    IF j > 1 /\ itemCmp(data[j], data[j - 1]) < 0
    THEN SinkItem(Swap(data, j, j - 1), j - 1)
    ELSE data

RECURSIVE InsertionSortItems(_, _)
InsertionSortItems(data, i) ==
    IF i > Len(data) THEN data ELSE InsertionSortItems(SinkItem(data, i), i + 1)

\* Faulty variant of SortItems: the items stay in the order of the response.
UnsortedItems(items) == items

SortItems(items) == InsertionSortItems(items, 2)

\* A BoardItem: [ID, Name, Title (Group.Title), Column_Values (texts)].
ItemPool ==
    {[ID |-> "5678901234", Name |-> "Stand up", Title |-> "Mon Sep 04", Column_Values |-> <<"0.5">>],
     [ID |-> "5678901236", Name |-> "Review", Title |-> "Tue Sep 05", Column_Values |-> <<"1">>],
     [ID |-> "5678901235", Name |-> "Demo", Title |-> "Fri Sep 10", Column_Values |-> <<"1.5">>],
     [ID |-> "5678901230", Name |-> "Misc", Title |-> "Backlog", Column_Values |-> <<>>],
     [ID |-> "5678901232", Name |-> "Planning", Title |-> "Sprint 7", Column_Values |-> <<"2">>],
     [ID |-> "5678901237", Name |-> "Pairing", Title |-> "Mon Sep 04", Column_Values |-> <<"1">>],
     [ID |-> "5678901238", Name |-> "Retro", Title |-> "Mon Sep 04", Column_Values |-> <<"1.5">>],
     [ID |-> "5678901231", Name |-> "Triage", Title |-> "Tue Sep 05", Column_Values |-> <<"">>]}

ItemPages == UNION {[1..n -> ItemPool] : n \in 0..MaxItems}

TextLine(kind, cells) == [kind |-> kind, cells |-> cells, days |-> {}]

\* The table cliGetBoardItems prints; panic: item.Column_Values[0] on an item
\* without column values, which ends the process before table.Print().
ItemsTable(items) ==
    IF \E i \in 1..Len(items) : Len(items[i].Column_Values) = 0
    THEN [panic |-> TRUE, lines |-> <<>>]
    ELSE [panic |-> FALSE,
          lines |-> <<TextLine("header", <<"GROUP", "HOURS", "DESCRIPTION", "PULSE ID">>)>>
                    \o [i \in 1..Len(items) |->
                          TextLine("row", <<items[i].Title, items[i].Column_Values[1],
                                        items[i].Name, items[i].ID>>)]]

\* month lookup of cliGetBoardItems: [err, boardID].
boardOfMonth(boardsConf, monthYYYYMM) ==
    IF MonthIsNil(boardsConf, monthYYYYMM) \/ MonthOf(boardsConf, monthYYYYMM).BoardID = ""
    THEN [err |-> WithStackF(msgMonthBoardIDNotFound(monthYYYYMM)), boardID |-> ""]
    ELSE [err |-> NilErr, boardID |-> MonthOf(boardsConf, monthYYYYMM).BoardID]


(***************************************************************************)
(* get-board-item-summary (main.go: cliGetBoardItemSummary).               *)
(***************************************************************************)
\* The float64 strconv.ParseFloat yields for a decimal text without sign or
\* exponent, in tenths.  The hours texts of ItemPool are multiples of 0.5,
\* which float64 holds and adds exactly.
ParseFloatTenths(s) ==
    LET i1 == DigitsEnd(s, 1)
    IN  DecVal(SubSeq(s, 1, i1 - 1), 1, 0) * 10
            + (IF Char(s, i1) = "." /\ Char(s, i1 + 1) \in Digits
               THEN DigitVal(Char(s, i1 + 1)) ELSE 0)

\* What the table prints for a float64 (fmt's %v: the shortest decimal).
FormatTenths(t) ==
    ToString(t \div 10) \o (IF t % 10 = 0 THEN "" ELSE "." \o ToString(t % 10))

msgItemHoursNotNumber(text, id) ==
    "hours = " \o text \o " (pulse_id = " \o id \o "): not a number. Exiting."

\* The item at which the aggregation loop stops: the first one without
\* column values (item.Column_Values[0] panics) or whose hours text does not
\* parse (the loop returns the error); 0 when the loop runs to the end.
FirstBadItem(items) ==
    LET bad == {i \in 1..Len(items) :
                   \/ Len(items[i].Column_Values) = 0
                   \/ ~ParseFloatOK(items[i].Column_Values[1])}
    IN  IF bad = {} THEN 0 ELSE CHOOSE i \in bad : \A j \in bad : i <= j

\* gd.TotalHours += hours over the items of one group, in the items' order.
RECURSIVE TotalHours(_, _, _)
TotalHours(items, title, i) ==
    IF i > Len(items) THEN 0
    ELSE (IF items[i].Title = title THEN ParseFloatTenths(items[i].Column_Values[1]) ELSE 0)
             + TotalHours(items, title, i + 1)

\* Faulty variant of groupMapOf: an item replaces its group's entry.
groupMapOverwriting(items) ==
    [t \in {items[i].Title : i \in 1..Len(items)} |->
        LET last == CHOOSE i \in 1..Len(items) :
                        /\ items[i].Title = t
                        /\ \A j \in (i + 1)..Len(items) : items[j].Title # t
        IN  [Group |-> t,
             TotalHours |-> ParseFloatTenths(items[last].Column_Values[1]),
             PulseCount |-> 1]]

\* groupMap once the loop has run over all the items.
groupMapOf(items) ==
    [t \in {items[i].Title : i \in 1..Len(items)} |->
        [Group |-> t,
         TotalHours |-> TotalHours(items, t, 1),
         PulseCount |-> Cardinality({i \in 1..Len(items) : items[i].Title = t})]]

\* Faulty variant of summarise: an item whose hours do not parse is left out.
summariseSkipping(items) ==
    LET ok(it) == Len(it.Column_Values) > 0 /\ ParseFloatOK(it.Column_Values[1])
    IN  [err |-> NilErr, panic |-> FALSE, groupMap |-> groupMapOf(SelectSeq(items, ok))]

\* The aggregation loop: [err, panic, groupMap].
summarise(items) ==
    LET b == FirstBadItem(items)
    IN  IF b = 0 THEN [err |-> NilErr, panic |-> FALSE, groupMap |-> groupMapOf(items)]
        ELSE IF Len(items[b].Column_Values) = 0
        THEN [err |-> NilErr, panic |-> TRUE, groupMap |-> groupMapOf(<<>>)]
        ELSE [err |-> WrapWithStackF(ParseFloatErr(items[b].Column_Values[1]),
                          msgItemHoursNotNumber(items[b].Column_Values[1], items[b].ID)),
              panic |-> FALSE, groupMap |-> groupMapOf(<<>>)]

\* for gKey, gVal := range groupMap: Go iterates a map in an unspecified
\* order, so groups may start as any arrangement of the map's entries.
GroupOrders(groupMap) ==
    {o \in [1..Cardinality(DOMAIN groupMap) -> DOMAIN groupMap] :
        \A i, j \in DOMAIN o : o[i] = o[j] => i = j}

\* The comparator cliGetBoardItemSummary hands to slices.SortFunc.
groupCmp(a, b) ==
    LET c == DaySuffixCompare(a.Group, b.Group)
    IN  IF c # 0 THEN c ELSE StrCompare(a.Group, b.Group)

RECURSIVE SinkGroup(_, _)
SinkGroup(data, j) ==
    IF j > 1 /\ groupCmp(data[j], data[j - 1]) < 0
    THEN SinkGroup(Swap(data, j, j - 1), j - 1)
    ELSE data

RECURSIVE InsertionSortGroups(_, _)
InsertionSortGroups(data, i) ==
    IF i > Len(data) THEN data ELSE InsertionSortGroups(SinkGroup(data, i), i + 1)

SortGroups(groups) == InsertionSortGroups(groups, 2)

\* The table cliGetBoardItemSummary prints.
SummaryTable(groups) ==
    <<TextLine("header", <<"GROUP", "TOTAL HOURS", "PULSE COUNT">>)>>
        \o [i \in 1..Len(groups) |->
              TextLine("row", <<groups[i].Group, FormatTenths(groups[i].TotalHours),
                            ToString(groups[i].PulseCount)>>)]

(***************************************************************************)
(* admin-get-board-by-id (main.go: getBoardByID) and pulse-link.           *)
(***************************************************************************)
ZeroBoard == [ID |-> "", Name |-> "", Groups |-> <<>>]

Group(id, title) == [ID |-> id, Title |-> title]

BoardPool ==
    {[ID |-> "1234567890", Name |-> "Sep 2023 Completed Work",
      Groups |-> <<Group("fri_sep_01", "Fri Sep 01"), Group("sat_sep_02", "Sat Sep 02")>>],
     [ID |-> "1234567891", Name |-> "Oct 2023 Completed Work",
      Groups |-> <<Group("topics", "Sun Oct 01"), Group("sun_oct_01", "Sun Oct 01")>>]}

\* groups[group.Title] = group.ID over board.Groups in order: the last wins.
groupsByTitle(board) ==
    {<<board.Groups[i].Title, board.Groups[i].ID>> : i \in
        {i \in 1..Len(board.Groups) :
            \A j \in (i + 1)..Len(board.Groups) : board.Groups[j].Title # board.Groups[i].Title}}

\* The document getBoardByID encodes on standard output.
BoardTOML(board) ==
    [kind |-> "toml", cells |-> <<"months.yyyy-mm", board.ID, board.Name>>,
     days |-> groupsByTitle(board)]

LinkLine(link) == TextLine("link", <<"https://magicboard.monday.com" \o link>>)

(***************************************************************************)
(* The remote service: what client.Query / client.Mutate can return.       *)
(***************************************************************************)
ServiceErrs ==
    {"Post \"https://api.monday.com/v2/\": dial tcp: connection refused",
     "Message: Not Authenticated, Locations: []"}

Response(e, link, list) == [err |-> e, link |-> link, list |-> list]

NoReply == Response("", "", <<>>)

FailedResponses == {Response(e, "", <<>>) : e \in ServiceErrs}

MutateResponses ==
    FailedResponses \cup {Response("", "/boards/1234567890/pulses/5678901237", <<>>)}

BoardsResponses ==
    FailedResponses \cup {Response("", "", <<>>)} \cup {Response("", "", <<b>>) : b \in BoardPool}

ZeroBoardWithItems == [ID |-> "", Name |-> "", Cursor |-> "", Items |-> <<>>]

\* (A cursor to a next page is drawn for the short pages only: the handlers
\* never read it.)
BoardItemsResponses ==
    FailedResponses \cup {Response("", "", <<>>)}
        \cup {Response("", "", <<[ID |-> "1234567890", Name |-> "Sep 2023 Completed Work",
                                  Cursor |-> c, Items |-> p]>>) :
                c \in {""}, p \in ItemPages}
        \cup {Response("", "", <<[ID |-> "1234567890", Name |-> "Sep 2023 Completed Work",
                                  Cursor |-> c, Items |-> p]>>) :
                c \in {"MSw5NzI4"}, p \in {q \in ItemPages : Len(q) <= 1}}

ZeroPulse == [Relative_Link |-> ""]

PulseResponses ==
    FailedResponses \cup {Response("", "", <<>>)}
        \cup {Response("", "", <<[Relative_Link |-> "/boards/1234567890/pulses/5678901237"]>>)}

(***************************************************************************)
(* update (main.go: cliUpdate).  A file is [exists, data], data a sequence *)
(* of chunks; the response body is the sequence of chunks still to read.   *)
(***************************************************************************)
\* Upper bound on the number of chunks of the downloaded body.
BodyChunks == 3

NoFile == [exists |-> FALSE, data |-> <<>>]

OldBoardsFile == [exists |-> TRUE, data |-> << <<"old", 1>>, <<"old", 2>> >>]

NoResponse == [status |-> 0, size |-> 0]

HTTPStatuses == {200, 404}

BodyKind(status) == IF status = 200 THEN "toml" ELSE "html"

BodyOf(resp) == [i \in 1..resp.size |-> <<BodyKind(resp.status), i>>]

\* Nothing has been read yet by the concurrent reader.
NotRead == [exists |-> FALSE, data |-> << <<"not read", 0>> >>]

\* exitCode before the process has ended; <<n>> once it ended with status n.
Running == <<>>

NothingPrinted == [any |-> FALSE, text |-> "", stack |-> FALSE]

PlainErr(text) == [type |-> "plain", msg |-> text, exitCode |-> 0, cause |-> ""]

boardsURL == "https://denis-engcom.github.io/mlog/boards.toml"

\* loadTOML(boardsConfFilePath).Description after the rename: the description
\* is in the first chunk of a TOML body; an HTML error page does not decode.
DescriptionOf(file) ==
    IF file.exists /\ Len(file.data) > 0 /\ file.data[1] = <<"toml", 1>>
    THEN "Board configuration (updated on 2023-10-11)"
    ELSE ""

UpdateReport(n, file) ==
    << TextLine("get", <<"GET " \o boardsURL, ToString(n), "successful">>),
       TextLine("saved", <<"Saved to boards.toml">>) >>
    \o (IF DescriptionOf(file) # ""
        THEN <<TextLine("description", <<DescriptionOf(file)>>)>> ELSE <<>>)
    \o <<TextLine("complete", <<"Update complete without errors.">>)>>


(***************************************************************************)
(* The invocation.                                                         *)
(***************************************************************************)
ConfCommands ==
    {"create-one", "get-board-items", "get-board-item-summary", "pulse-link",
     "admin-get-board-by-id"}

DayArgs == {"2023-09-05", "2023-09-06", "2023-10-05", "2023-9-5", "2023-09-005", ""}

HoursArgs == {"2.5", "3", "abc", "", ".5", "NaN", "+3", "1e2", "-1", "2,5"}

MonthArgs == {"2023-09", "2023-10", ""}

DefaultUserDoc == [err |-> "", conf |-> [APIAccessToken |-> "tok", LoggingUserID |-> "42"]]

DefaultBoardsDoc ==
    [err |-> "",
     conf |-> [PersonColumnID |-> "person", HoursColumnID |-> "numbers", Description |-> "",
               Months |-> NoMonths]]

NoCall == [made |-> FALSE, boardID |-> 0, groupID |-> "", itemName |-> "", hours |-> ""]

ZeroConf == [user |-> ZeroUserConf, boards |-> ZeroBoardsConf]

InitArgs ==
    \/ /\ cmd = "create-one"
       /\ day \in DayArgs
       /\ hours \in HoursArgs
       /\ arg = ""
    \/ /\ cmd \in {"get-board-items", "get-board-item-summary"}
       /\ arg \in MonthArgs
       /\ day = ""
       /\ hours = ""
    \/ /\ cmd = "pulse-link"
       /\ arg = "5678901237"
       /\ day = ""
       /\ hours = ""
    \/ /\ cmd = "admin-get-board-by-id"
       /\ arg = "1234567890"
       /\ day = ""
       /\ hours = ""

InitConfCommand ==
    /\ InitArgs
    /\ pathsErr \in {"none", "user", "boards"}
    /\ userDoc \in UserDocs
    /\ boardsDoc \in BoardsDocs
    /\ pathsErr # "none" => userDoc = DefaultUserDoc /\ boardsDoc = DefaultBoardsDoc
    \* Only createOne reads month.Days and converts month.BoardID: the other
    \* commands get months without days, with no board id or a numeric one.
    /\ cmd # "create-one" =>
           \A k \in DOMAIN boardsDoc.conf.Months :
               /\ DOMAIN boardsDoc.conf.Months[k].Days = {}
               /\ boardsDoc.conf.Months[k].BoardID \in {"", "1234567890"}
    /\ boardsFile = OldBoardsFile

\* setup reads the two column ids and the description of the boards document.
SetupBoardsDocs ==
    {[err |-> "toml: expected character =", conf |-> ZeroBoardsConf]}
        \cup {[err |-> "",
               conf |-> [PersonColumnID |-> p[1], HoursColumnID |-> p[2], Description |-> d,
                         Months |-> NoMonths]] :
                p \in ColumnPairs \cup {<<"", "">>},
                d \in {"", "Board configuration (updated on 2023-10-11)"}}

InitSetup ==
    /\ cmd = "setup"
    /\ day = ""
    /\ hours = ""
    /\ arg = ""
    /\ pathsErr \in {"none", "user", "boards"}
    /\ userDoc \in UserDocs
    /\ boardsDoc \in SetupBoardsDocs
    /\ boardsFile = OldBoardsFile

InitUpdate ==
    /\ cmd = "update"
    /\ day = ""
    /\ hours = ""
    /\ arg = ""
    /\ pathsErr \in {"none", "user", "boards"}
    /\ userDoc = DefaultUserDoc
    /\ boardsDoc = DefaultBoardsDoc
    /\ boardsFile \in {NoFile, OldBoardsFile}

\* The --debug flag is drawn for every command but the two that list items,
\* and for create-one with one well-formed and one malformed pair of arguments.
InitDebug ==
    /\ debug \in BOOLEAN
    /\ debug => /\ cmd \notin {"get-board-items", "get-board-item-summary"}
                /\ cmd = "create-one" => day \in {"2023-09-05", "2023-9-5"} /\ hours \in {"2.5", "abc"}

\* The processes of two concurrent updates and the files they open.
Updaters == {"first", "second"}

Files == Updaters \cup {"old"}

\* The chunk a write leaves where nothing was written (a run of zero bytes).
Hole == [from |-> "hole", at |-> 0]

OldData == <<[from |-> "old", at |-> 1], [from |-> "old", at |-> 2]>>

\* Of each process: its position in cliUpdate, the chunks of the body it
\* got and those it has copied, the file its descriptor is open on, and the
\* error it returned.
Updater(pos, size) == [pc |-> pos, size |-> size, n |-> 0, fd |-> "none", err |-> NilErr]

NoUpdaters == [p \in Updaters |-> Updater("idle", 0)]

NoDisk == [boards |-> "old", tmp |-> "none", data |-> [f \in Files |-> <<>>]]

\* One invocation of mlog, about to run its action.
InitInvocation ==
    /\ InitConfCommand \/ InitSetup \/ InitUpdate
    /\ InitDebug
    /\ pc = "start"
    /\ conf = ZeroConf
    /\ call = NoCall
    /\ lookups = <<>>
    /\ requests = <<>>
    /\ reply = NoReply
    /\ err = NilErr
    /\ out = <<>>
    /\ panicked = FALSE
    /\ tmpFile = NoFile
    /\ httpResp = NoResponse
    /\ body = <<>>
    /\ copied = 0
    /\ observed = NotRead
    /\ exitCode = Running
    /\ stderr = NothingPrinted

\* A single invocation: no second update runs beside it.
Init ==
    /\ InitInvocation
    /\ updaters = NoUpdaters
    /\ disk = NoDisk

inputs == <<cmd, debug, day, hours, arg, userDoc, boardsDoc, pathsErr>>

\* What only customErrorHandler sets.
ending == <<exitCode, stderr>>

\* What only two concurrent updates set.
others == <<updaters, disk>>

files == <<boardsFile, tmpFile, httpResp, body, copied, observed>>

msgLocateUser ==
    "Error: unable to locate user configuration file. Please send a bug report to the developer. Exiting."

msgLocateBoards ==
    "Error: unable to locate boards configuration file. Please send a bug report to the developer. Exiting."

\* loadConfPaths(): the error it returns.
loadConfPaths(which) ==
    IF which = "user" THEN newCLIError("xdg: could not create any of the paths", msgLocateUser)
    ELSE IF which = "boards"
        THEN newCLIError("xdg: could not create any of the paths", msgLocateBoards)
    ELSE NilErr

(***************************************************************************)
(* setup (main.go: cliSetup).  A line printed with the cross mark is of    *)
(* kind "cross", one printed with the check mark of kind "check".          *)
(***************************************************************************)
msgUserConfInvalid ==
    "The user configuration has one or more validation errors.\nRefer to github.com/denis-engcom/mlog - config.example.toml for how to configure the file properly."

\* (The source quotes the command in backquotes.)
msgBoardsConfInvalid ==
    "The boards configuration has one or more validation errors.\nRun 'mlog update' to fetch the latest board configuration."

Missing(field) == <<TextLine("cross", <<"Missing " \o field>>)>>

Unparsed == <<TextLine("cross", <<"Unable to parse file (missing or incorrectly formatted)">>)>>

FileIsValid == <<TextLine("check", <<"File is valid">>)>>

\* Faulty variant of userReport: one empty field reports both as missing.
userReportConflated(uDoc) ==
    LET ok == /\ uDoc.err = ""
              /\ uDoc.conf.APIAccessToken # ""
              /\ uDoc.conf.LoggingUserID # ""
    IN  [valid |-> ok,
         lines |-> <<TextLine("path", <<"User configuration path:   ", "config.toml">>)>>
                   \o (IF uDoc.err # "" THEN Unparsed ELSE <<>>)
                   \o (IF ok THEN FileIsValid
                       ELSE Missing("api_access_token") \o Missing("logging_user_id"))]

\* The user half of cliSetup: [lines, valid (validConfiguration)].
userReport(uDoc) ==
    [valid |-> /\ uDoc.err = ""
               /\ uDoc.conf.APIAccessToken # ""
               /\ uDoc.conf.LoggingUserID # "",
     lines |-> <<TextLine("path", <<"User configuration path:   ", "config.toml">>)>>
               \o (IF uDoc.err # ""
                   THEN Unparsed \o Missing("api_access_token") \o Missing("logging_user_id")
                   ELSE IF uDoc.conf.APIAccessToken # "" /\ uDoc.conf.LoggingUserID # ""
                   THEN FileIsValid
                   ELSE (IF uDoc.conf.APIAccessToken = ""
                         THEN Missing("api_access_token") ELSE <<>>)
                        \o (IF uDoc.conf.LoggingUserID = ""
                            THEN Missing("logging_user_id") ELSE <<>>))]

\* The boards half of cliSetup: [lines, valid].
boardsReport(bDoc) ==
    [valid |-> /\ bDoc.err = ""
               /\ bDoc.conf.PersonColumnID # ""
               /\ bDoc.conf.HoursColumnID # "",
     lines |-> <<TextLine("path", <<"Boards configuration path: ", "boards.toml">>)>>
               \o (IF bDoc.err # ""
                   THEN Unparsed \o Missing("person_column_id") \o Missing("hours_column_id")
                   ELSE (IF bDoc.conf.PersonColumnID # "" /\ bDoc.conf.HoursColumnID # ""
                         THEN FileIsValid
                         ELSE (IF bDoc.conf.PersonColumnID = ""
                               THEN Missing("person_column_id") ELSE <<>>)
                              \o (IF bDoc.conf.HoursColumnID = ""
                                  THEN Missing("hours_column_id") ELSE <<>>))
                        \o (IF bDoc.conf.Description # ""
                            THEN <<TextLine("check",
                                            <<"Description: " \o bDoc.conf.Description>>)>>
                            ELSE <<>>))]

SetupComplete == <<TextLine("complete", <<"Setup complete without errors.">>)>>

\* Faulty variant of cliSetup: the boards document is reported in any case.
cliSetupBothReports(which, uDoc, bDoc) ==
    LET u == userReport(uDoc)
        b == boardsReport(bDoc)
    IN  IF loadConfPaths(which) # NilErr THEN [out |-> <<>>, err |-> loadConfPaths(which)]
        ELSE IF ~u.valid
        THEN [out |-> u.lines \o b.lines, err |-> newCLIError(uDoc.err, msgUserConfInvalid)]
        ELSE IF ~b.valid
        THEN [out |-> u.lines \o b.lines, err |-> newCLIError(bDoc.err, msgBoardsConfInvalid)]
        ELSE [out |-> u.lines \o b.lines \o SetupComplete, err |-> NilErr]

\* Faulty variant of cliSetup: the report is printed and nil returned.
cliSetupReportOnly(which, uDoc, bDoc) ==
    LET u == userReport(uDoc)
        b == boardsReport(bDoc)
    IN  IF loadConfPaths(which) # NilErr THEN [out |-> <<>>, err |-> loadConfPaths(which)]
        ELSE IF ~u.valid
        THEN [out |-> u.lines \o <<TextLine("skip", <<"(skipping boards configuration)">>)>>,
              err |-> NilErr]
        ELSE IF ~b.valid
        THEN [out |-> u.lines \o b.lines, err |-> NilErr]
        ELSE [out |-> u.lines \o b.lines \o SetupComplete, err |-> NilErr]

\* cliSetup: [out, err].
cliSetup(which, uDoc, bDoc) ==
    LET u == userReport(uDoc)
        b == boardsReport(bDoc)
    IN  IF loadConfPaths(which) # NilErr THEN [out |-> <<>>, err |-> loadConfPaths(which)]
        ELSE IF ~u.valid
        THEN [out |-> u.lines \o <<TextLine("skip", <<"(skipping boards configuration)">>)>>,
              err |-> newCLIError(uDoc.err, msgUserConfInvalid)]
        ELSE IF ~b.valid
        THEN [out |-> u.lines \o b.lines, err |-> newCLIError(bDoc.err, msgBoardsConfInvalid)]
        ELSE [out |-> u.lines \o b.lines \o SetupComplete, err |-> NilErr]

\* customErrorHandler: the exit code of the process for the error the
\* handler returned (a CLIError is a cli.ExitCoder; any other error gives 1).
\* Faulty variant of exitCodeOf: only an ExitCoder gives a nonzero code.
exitCodeOfExitCoder(e) ==
    IF e = NilErr THEN 0 ELSE e.exitCode

exitCodeOf(e) ==
    IF e = NilErr THEN 0
    ELSE IF e.type = "CLIError" THEN e.exitCode
    ELSE 1

\* The handler returns e.
Return(e) ==
    /\ err' = e
    /\ pc' = "exit"

\* userConf, boardsConf, err := loadConf(); NewMondayAPIClient(...)
LoadConf ==
    /\ pc = "start"
    /\ cmd \in ConfCommands
    /\ LET p == loadConfPaths(pathsErr)
           r == loadConf(userDoc, boardsDoc)
       IN  IF p # NilErr THEN Return(p) /\ conf' = conf
           ELSE IF r.err # NilErr THEN Return(r.err) /\ conf' = conf
           ELSE /\ conf' = [user |-> r.user, boards |-> r.boards]
                /\ pc' = "loaded"
                /\ err' = err
    /\ UNCHANGED <<inputs, others, ending, files, call, lookups, requests, reply, out, panicked>>

\* cliSetup: both documents are read from disk and the report is printed.
Setup ==
    /\ pc = "start"
    /\ cmd = "setup"
    /\ LET r == cliSetup(pathsErr, userDoc, boardsDoc)
       IN  /\ out' = out \o r.out
           /\ Return(r.err)
    /\ UNCHANGED <<inputs, others, ending, files, conf, call, lookups, requests, reply, panicked>>

client == NewMondayAPIClient(conf.user, conf.boards)

\* createOne, to the point where CreateLogItem blocks in client.Mutate.
CreateOne ==
    /\ pc = "loaded"
    /\ cmd = "create-one"
    /\ LET r == createOneResolve(conf.boards, day)
           c == CreateLogItemPrepare(client, r.boardID, r.groupID, ItemName, hours)
       IN  /\ lookups' = r.lookups
           /\ IF r.err # NilErr
              THEN Return(r.err) /\ UNCHANGED <<call, requests>>
              ELSE /\ call' = [made |-> TRUE, boardID |-> r.boardID, groupID |-> r.groupID,
                               itemName |-> ItemName, hours |-> hours]
                   /\ IF c.err # NilErr
                      THEN Return(c.err) /\ UNCHANGED requests
                      ELSE /\ requests' = Append(requests, c.req)
                           /\ pc' = "mutate"
                           /\ err' = err
    /\ UNCHANGED <<inputs, others, ending, files, conf, reply, out, panicked>>

\* client.Mutate returns; createOne prints the link or returns the error.
CreateOneReturn ==
    /\ pc = "mutate"
    /\ \E resp \in MutateResponses :
        LET r == CreateLogItemReturn(resp)
        IN  /\ reply' = resp
            /\ Return(r.err)
            /\ out' = IF r.err = NilErr THEN Append(out, LinkLine(r.link)) ELSE out
    /\ UNCHANGED <<inputs, others, ending, files, conf, call, lookups, requests, panicked>>

\* The process dies of a runtime panic.
Panic ==
    /\ panicked' = TRUE
    /\ pc' = "panic"
    /\ err' = err

\* cliGetBoardItems, to the point where GetBoardItems blocks in client.Query.
GetBoardItems ==
    /\ pc = "loaded"
    /\ cmd = "get-board-items"
    /\ LET b == boardOfMonth(conf.boards, arg)
       IN  IF b.err # NilErr
           THEN Return(b.err) /\ UNCHANGED requests
           ELSE /\ requests' = Append(requests, QueryRequest("boards_items", b.boardID))
                /\ pc' = "query"
                /\ err' = err
    /\ UNCHANGED <<inputs, others, ending, files, conf, call, lookups, reply, out, panicked>>

\* Faulty variant of GetBoardItemsReturn: a page that carries a cursor is
\* followed by a query for the next page.
GetBoardItemsReturnNextPage ==
    /\ pc = "query"
    /\ cmd = "get-board-items"
    /\ \E resp \in BoardItemsResponses :
        LET r == FirstOrPanic(resp, resp.list, ZeroBoardWithItems)
            t == ItemsTable(SortItems(r.value.Items))
        IN  /\ reply' = resp
            /\ IF r.err # NilErr THEN Return(r.err) /\ UNCHANGED <<out, panicked, requests>>
               ELSE IF r.panic \/ t.panic THEN Panic /\ UNCHANGED <<out, requests>>
               ELSE IF r.value.Cursor # "" /\ Len(requests) < 3
               THEN /\ requests' = Append(requests, QueryRequest("next_items_page", r.value.Cursor))
                    /\ UNCHANGED <<out, panicked, pc, err>>
               ELSE Return(NilErr) /\ out' = out \o t.lines /\ UNCHANGED <<panicked, requests>>
    /\ UNCHANGED <<inputs, others, ending, files, conf, call, lookups>>

\* client.Query returns; cliGetBoardItems sorts the items and prints the table.
GetBoardItemsReturn ==
    /\ pc = "query"
    /\ cmd = "get-board-items"
    /\ \E resp \in BoardItemsResponses :
        LET r == FirstOrPanic(resp, resp.list, ZeroBoardWithItems)
            t == ItemsTable(SortItems(r.value.Items))
        IN  /\ reply' = resp
            /\ IF r.err # NilErr THEN Return(r.err) /\ UNCHANGED <<out, panicked>>
               ELSE IF r.panic \/ t.panic THEN Panic /\ out' = out
               ELSE Return(NilErr) /\ out' = out \o t.lines /\ panicked' = panicked
    /\ UNCHANGED <<inputs, others, ending, files, conf, call, lookups, requests>>

\* cliGetBoardItemSummary, to the point where GetBoardItems blocks in client.Query.
GetBoardItemSummary ==
    /\ pc = "loaded"
    /\ cmd = "get-board-item-summary"
    /\ LET b == boardOfMonth(conf.boards, arg)
       IN  IF b.err # NilErr
           THEN Return(b.err) /\ UNCHANGED requests
           ELSE /\ requests' = Append(requests, QueryRequest("boards_items", b.boardID))
                /\ pc' = "query"
                /\ err' = err
    /\ UNCHANGED <<inputs, others, ending, files, conf, call, lookups, reply, out, panicked>>

\* client.Query returns; cliGetBoardItemSummary aggregates the items by group,
\* sorts the groups and prints the table.
GetBoardItemSummaryReturn ==
    /\ pc = "query"
    /\ cmd = "get-board-item-summary"
    /\ \E resp \in BoardItemsResponses :
        LET r == FirstOrPanic(resp, resp.list, ZeroBoardWithItems)
            g == summarise(r.value.Items)
        IN  /\ reply' = resp
            /\ IF r.err # NilErr THEN Return(r.err) /\ UNCHANGED <<out, panicked>>
               ELSE IF r.panic \/ g.panic THEN Panic /\ out' = out
               ELSE IF g.err # NilErr THEN Return(g.err) /\ UNCHANGED <<out, panicked>>
               ELSE \E o \in GroupOrders(g.groupMap) :
                       /\ Return(NilErr)
                       /\ out' = out \o SummaryTable(SortGroups(
                                      [i \in DOMAIN o |-> g.groupMap[o[i]]]))
                       /\ panicked' = panicked
    /\ UNCHANGED <<inputs, others, ending, files, conf, call, lookups, requests>>

\* cliPulseLink, to the point where GetPulseRelativeLink blocks in client.Query.
PulseLink ==
    /\ pc = "loaded"
    /\ cmd = "pulse-link"
    /\ requests' = Append(requests, QueryRequest("items", arg))
    /\ pc' = "query"
    /\ UNCHANGED <<inputs, others, ending, files, conf, call, lookups, reply, err, out, panicked>>

PulseLinkReturn ==
    /\ pc = "query"
    /\ cmd = "pulse-link"
    /\ \E resp \in PulseResponses :
        LET r == FirstOrPanic(resp, resp.list, ZeroPulse)
        IN  /\ reply' = resp
            /\ IF r.err # NilErr THEN Return(r.err) /\ UNCHANGED <<out, panicked>>
               ELSE IF r.panic THEN Panic /\ out' = out
               ELSE /\ Return(NilErr)
                    /\ out' = Append(out, LinkLine(r.value.Relative_Link))
                    /\ panicked' = panicked
    /\ UNCHANGED <<inputs, others, ending, files, conf, call, lookups, requests>>

\* cliGetBoardByID / getBoardByID, to the point where GetBoardByID blocks.
GetBoardByID ==
    /\ pc = "loaded"
    /\ cmd = "admin-get-board-by-id"
    /\ requests' = Append(requests, QueryRequest("boards", arg))
    /\ pc' = "query"
    /\ UNCHANGED <<inputs, others, ending, files, conf, call, lookups, reply, err, out, panicked>>

GetBoardByIDReturn ==
    /\ pc = "query"
    /\ cmd = "admin-get-board-by-id"
    /\ \E resp \in BoardsResponses :
        LET r == FirstOrPanic(resp, resp.list, ZeroBoard)
        IN  /\ reply' = resp
            /\ IF r.err # NilErr THEN Return(r.err) /\ UNCHANGED <<out, panicked>>
               ELSE IF r.panic THEN Panic /\ out' = out
               ELSE /\ Return(NilErr)
                    /\ out' = Append(out, BoardTOML(r.value))
                    /\ panicked' = panicked
    /\ UNCHANGED <<inputs, others, ending, files, conf, call, lookups, requests>>

idle == <<conf, call, lookups, requests, reply, panicked, observed>>

\* cliUpdate: loadConfPaths() and http.Get(boardsURL).
UpdateGet ==
    /\ pc = "start"
    /\ cmd = "update"
    /\ IF loadConfPaths(pathsErr) # NilErr
       THEN Return(loadConfPaths(pathsErr)) /\ UNCHANGED <<httpResp, body>>
       ELSE \/ /\ Return(PlainErr("Get \"" \o boardsURL \o "\": dial tcp: i/o timeout"))
               /\ UNCHANGED <<httpResp, body>>
            \/ \E resp \in [status : HTTPStatuses, size : 0..BodyChunks] :
                /\ httpResp' = resp
                /\ body' = BodyOf(resp)
                /\ pc' = "create"
                /\ err' = err
    /\ UNCHANGED <<inputs, others, ending, idle, out, boardsFile, tmpFile, copied>>

\* Faulty variant of UpdateCreate: os.Create(boardsConfFilePath), in place.
UpdateCreateInPlace ==
    /\ pc = "create"
    /\ boardsFile' = [exists |-> TRUE, data |-> <<>>]
    /\ pc' = "copy"
    /\ UNCHANGED <<inputs, others, ending, idle, out, err, tmpFile, httpResp, body, copied>>

\* os.Create(boardsConfFilePath + ".tmp")
UpdateCreate ==
    /\ pc = "create"
    /\ \/ /\ Return(PlainErr("open boards.toml.tmp: permission denied"))
          /\ tmpFile' = tmpFile
       \/ /\ tmpFile' = [exists |-> TRUE, data |-> <<>>]
          /\ pc' = "copy"
          /\ err' = err
    /\ UNCHANGED <<inputs, others, ending, idle, out, boardsFile, httpResp, body, copied>>

\* io.Copy moves the next chunk of the body into the temporary file.
UpdateCopy ==
    /\ pc = "copy"
    /\ body # <<>>
    /\ tmpFile' = [tmpFile EXCEPT !.data = Append(@, Head(body))]
    /\ body' = Tail(body)
    /\ copied' = copied + 1
    /\ UNCHANGED <<inputs, others, ending, idle, out, boardsFile, httpResp, pc, err>>

\* Faulty variant of UpdateCopyFail: the partial file is renamed into place.
UpdateCopyFailInstalls ==
    /\ pc = "copy"
    /\ body # <<>>
    /\ Return(PlainErr("unexpected EOF"))
    /\ boardsFile' = tmpFile
    /\ tmpFile' = NoFile
    /\ UNCHANGED <<inputs, others, ending, idle, out, httpResp, body, copied>>

\* io.Copy fails before the end of the body (the connection breaks, the body
\* is cut short of its announced length, the disk is full): cliUpdate returns.
UpdateCopyFail ==
    /\ pc = "copy"
    /\ body # <<>>
    /\ Return(PlainErr("unexpected EOF"))
    /\ UNCHANGED <<inputs, others, ending, idle, out, boardsFile, tmpFile, httpResp, body, copied>>

\* io.Copy returned nil: Close, os.Rename, the report.
UpdateRename ==
    /\ pc = "copy"
    /\ body = <<>>
    /\ \/ /\ Return(PlainErr("rename boards.toml.tmp boards.toml: permission denied"))
          /\ UNCHANGED <<boardsFile, tmpFile, out>>
       \/ /\ boardsFile' = tmpFile
          /\ tmpFile' = NoFile
          /\ out' = out \o UpdateReport(copied, tmpFile)
          /\ Return(NilErr)
    /\ UNCHANGED <<inputs, others, ending, idle, httpResp, body, copied>>

\* Another process (any command in loadConf, setup) runs loadTOML on
\* boards.toml while cliUpdate is at work.  os.Open binds the reader to the
\* file the name denotes at that moment; cliUpdate writes only to
\* boards.toml.tmp, another file, and os.Rename re-points the name in one
\* step, so the reader decodes the content the name had when it was opened.
ReadBoardsFile ==
    /\ cmd = "update"
    /\ observed' = boardsFile
    /\ UNCHANGED <<inputs, others, ending, conf, call, lookups, requests, reply, panicked, err, out, pc,
                   boardsFile, tmpFile, httpResp, body, copied>>

\* (*CLIError).Error(): the message, the exit code and the wrapped error.
CLIErrorText(e) ==
    IF e.cause # ""
    THEN e.msg \o "\nExit code: " \o ToString(e.exitCode) \o "\n" \o e.cause
    ELSE e.msg \o "\nExit code: " \o ToString(e.exitCode)

\* err.Error(): newCLIError returns the CLIError wrapped by errors.Wrap,
\* whose text is the text of what it wraps.
ErrorText(e) == IF e.type = "CLIError" THEN CLIErrorText(e) ELSE e.msg

\* (*errors.Error).ErrorStack() of the wrapper errors.Wrap(ce, 2) built: the
\* type name, the error text, and the frames recorded at construction
\* (stack = TRUE stands for the frames).
ErrorStack(e) == [text |-> "*main.CLIError " \o CLIErrorText(e), stack |-> TRUE]

\* Faulty variant of customErrorHandler's message: the debug flag is ignored.
messageOfIgnoringDebug(d, e) ==
    IF e.type = "CLIError" THEN [text |-> e.msg, stack |-> FALSE]
    ELSE [text |-> ErrorText(e), stack |-> FALSE]

\* customErrorHandler: the message handed to cli.Exit.  Only what
\* newCLIError built is an ErrorStacker and a Messager; for any other error
\* the message stays the error itself, printed as its text.
messageOf(d, e) ==
    IF d
    THEN IF e.type = "CLIError" THEN ErrorStack(e) ELSE [text |-> ErrorText(e), stack |-> FALSE]
    ELSE IF e.type = "CLIError" THEN [text |-> e.msg, stack |-> FALSE]
         ELSE [text |-> ErrorText(e), stack |-> FALSE]

\* customErrorHandler (App.ExitErrHandler), run with what the action
\* returned: a nil error prints nothing and the process ends with status 0.
customErrorHandler(d, e) ==
    IF e = NilErr THEN [code |-> 0, printed |-> NothingPrinted]
    ELSE [code |-> exitCodeOf(e),
          printed |-> [any |-> TRUE, text |-> messageOf(d, e).text,
                       stack |-> messageOf(d, e).stack]]

ExitErrHandler ==
    /\ pc = "exit"
    /\ exitCode = Running
    /\ exitCode' = <<customErrorHandler(debug, err).code>>
    /\ stderr' = customErrorHandler(debug, err).printed
    /\ UNCHANGED <<inputs, others, files, idle, err, out, pc>>

Next ==
    \/ LoadConf
    \/ Setup
    \/ CreateOne
    \/ CreateOneReturn
    \/ GetBoardItems
    \/ GetBoardItemsReturn
    \/ GetBoardItemSummary
    \/ GetBoardItemSummaryReturn
    \/ PulseLink
    \/ PulseLinkReturn
    \/ GetBoardByID
    \/ GetBoardByIDReturn
    \/ UpdateGet
    \/ UpdateCreate
    \/ UpdateCopy
    \/ UpdateCopyFail
    \/ UpdateRename
    \/ ReadBoardsFile
    \/ ExitErrHandler

Spec == Init /\ [][Next]_vars

(***************************************************************************)
(* Two invocations of update at the same time (main.go: cliUpdate).  Both  *)
(* use the one path boards.toml.tmp.  disk.tmp and disk.boards name the    *)
(* file each path denotes, disk.data the content of each file, a sequence  *)
(* of chunks [from, at]: chunk number at of the body process from          *)
(* downloaded.  A file is named after the process whose os.Create made it; *)
(* "old" is the boards file from before.                                   *)
(***************************************************************************)
\* Both processes got the response of http.Get, the same body of size
\* chunks.  (The variables of the single invocation stay as they start.)
InitTwoUpdates ==
    /\ InitInvocation
    /\ cmd = "update"
    /\ pathsErr = "none"
    /\ ~debug
    /\ boardsFile = OldBoardsFile
    /\ \E size \in 1..BodyChunks :
        updaters = [p \in Updaters |-> Updater("create", size)]
    /\ disk = [boards |-> "old", tmp |-> "none",
               data |-> [f \in Files |-> IF f = "old" THEN OldData ELSE <<>>]]

\* write(2) of one chunk at the offset of the descriptor: the chunk replaces
\* what the file holds there, and a file shorter than the offset is
\* extended by a hole.
WriteAt(data, off, chunk) ==
    [i \in 1..(IF Len(data) > off + 1 THEN Len(data) ELSE off + 1) |->
        IF i = off + 1 THEN chunk
        ELSE IF i <= Len(data) THEN data[i]
        ELSE Hole]

\* os.Create(boardsConfFilePath + ".tmp"): O_CREATE|O_TRUNC.  The file the
\* path denotes is emptied and opened; when the path denotes none, a new
\* file is made.
TwoCreate ==
    \E p \in Updaters :
        /\ updaters[p].pc = "create"
        /\ LET f == IF disk.tmp = "none" THEN p ELSE disk.tmp
           IN  /\ disk' = [disk EXCEPT !.tmp = f, !.data[f] = <<>>]
               /\ updaters' = [updaters EXCEPT ![p].pc = "copy", ![p].fd = f]
        /\ UNCHANGED <<inputs, ending, files, idle, err, out, pc>>

\* io.Copy writes the next chunk of the body through the process's descriptor.
TwoCopy ==
    \E p \in Updaters :
        /\ updaters[p].pc = "copy"
        /\ updaters[p].n < updaters[p].size
        /\ disk' = [disk EXCEPT !.data[updaters[p].fd] =
                        WriteAt(@, updaters[p].n, [from |-> p, at |-> updaters[p].n + 1])]
        /\ updaters' = [updaters EXCEPT ![p].n = @ + 1]
        /\ UNCHANGED <<inputs, ending, files, idle, err, out, pc>>

\* io.Copy fails before the end of the body: cliUpdate returns the error.
TwoCopyFail ==
    \E p \in Updaters :
        /\ updaters[p].pc = "copy"
        /\ updaters[p].n < updaters[p].size
        /\ updaters' = [updaters EXCEPT ![p].pc = "exit", ![p].err = PlainErr("unexpected EOF")]
        /\ UNCHANGED <<inputs, ending, files, idle, err, out, pc, disk>>

\* io.Copy returned nil: Close and os.Rename, which fails when the other
\* process has already renamed the temporary file away.
TwoRename ==
    \E p \in Updaters :
        /\ updaters[p].pc = "copy"
        /\ updaters[p].n = updaters[p].size
        /\ \/ /\ disk.tmp = "none"
              /\ updaters' = [updaters EXCEPT ![p].pc = "exit", ![p].err =
                     PlainErr("rename boards.toml.tmp boards.toml: no such file or directory")]
              /\ disk' = disk
           \/ /\ disk.tmp # "none"
              /\ disk' = [disk EXCEPT !.boards = disk.tmp, !.tmp = "none"]
              /\ updaters' = [updaters EXCEPT ![p].pc = "exit"]
        /\ UNCHANGED <<inputs, ending, files, idle, err, out, pc>>

NextTwoUpdates ==
    \/ TwoCreate
    \/ TwoCopy
    \/ TwoCopyFail
    \/ TwoRename

SpecTwoUpdates == InitTwoUpdates /\ [][NextTwoUpdates]_vars


(***************************************************************************)
(* Properties.                                                             *)
(***************************************************************************)
Loaded == conf # ZeroConf

CreateOneEnded == cmd = "create-one" /\ Loaded /\ pc = "exit"

NotFoundText == "not found in boards configuration"

\* The month entry the boards mapping holds for the date, and its presence.
MonthPresent == SubSeq(day, 1, 7) \in DOMAIN conf.boards.Months

MonthEntry == conf.boards.Months[SubSeq(day, 1, 7)]

\* The group the month entry configures under key k ("" when it has none).
GroupUnder(k) == IF k \in DOMAIN MonthEntry.Days THEN MonthEntry.Days[k] ELSE ""

\* C1: create-one with a date argument whose length is not 10 fails with the
\* date-format validation error; no key of the boards mapping is looked up
\* and no remote request is issued.
C1_DateLengthRejected ==
    (cmd = "create-one" /\ Len(day) # 10) =>
        /\ lookups = <<>>
        /\ ~call.made
        /\ requests = <<>>
        /\ pc \in {"start", "loaded", "exit"}
        /\ pc = "exit" => err.type = "CLIError" /\ err.exitCode = 1
        /\ CreateOneEnded => err.msg = "day = " \o day
               \o " (first arg): provided day is not in format yyyy-mm-dd. Exiting."

C1_Witness ==
    /\ CreateOneEnded
    /\ Len(day) = 11
    /\ MonthPresent
    /\ Contains(err.msg, "not in format yyyy-mm-dd")

C3_Original ==
    (/\ CreateOneEnded
     /\ Len(day) = 10
     /\ \/ ~MonthPresent
        \/ MonthEntry.BoardID = ""
        \/ GroupUnder(SubSeq(day, 8, 10)) = "") =>
        /\ Contains(err.msg, NotFoundText)
        /\ Contains(err.msg, SubSeq(day, 1, 7))
        /\ requests = <<>>
        /\ ~call.made

\* C3 (amended): when the month has no entry or an empty board id, the error
\* is the "not found in boards configuration" error naming the month; when
\* the month has an integer board id and no group id for the day, it is the
\* one naming month and day; a non-empty board id that is no integer is
\* reported as "not a number" first.  In all three cases no identifier is
\* substituted and no request is issued.
C3_LookupFailureIsTerminal ==
    (CreateOneEnded /\ Len(day) = 10) =>
        /\ (~MonthPresent \/ MonthEntry.BoardID = "") =>
            /\ err.msg = "\"months." \o SubSeq(day, 1, 7)
                   \o ".board_id\": not found in boards configuration. Exiting."
            /\ err.exitCode = 1
            /\ ~call.made
            /\ requests = <<>>
        /\ (/\ MonthPresent
            /\ MonthEntry.BoardID # ""
            /\ GroupUnder(SubSeq(day, 8, 10)) = "") =>
            /\ IF AtoiOK(MonthEntry.BoardID)
               THEN err.msg = "\"month." \o SubSeq(day, 1, 7) \o ".days."
                        \o SubSeq(day, 8, 10)
                        \o "\": not found in boards configuration. Exiting."
               ELSE err.msg = "\"months." \o SubSeq(day, 1, 7)
                        \o ".board_id\": not a number. Exiting."
            /\ err.exitCode = 1
            /\ ~call.made
            /\ requests = <<>>

C3_Witness ==
    /\ CreateOneEnded
    /\ Len(day) = 10
    /\ MonthPresent
    /\ AtoiOK(MonthEntry.BoardID)
    /\ GroupUnder(SubSeq(day, 8, 10)) = ""
    /\ Contains(err.msg, NotFoundText)
    /\ Contains(err.msg, ".days.-0")

\* C4 (as stated): the month entry is read under the first 7 characters of
\* the date and the group under its last 2 characters.
C4_Original ==
    (cmd = "create-one" /\ Len(lookups) = 2) =>
        /\ lookups[1] = <<"month", SubSeq(day, 1, 7)>>
        /\ lookups[2] = <<"day", SubSeq(day, 9, 10)>>

\* C4 (amended): the month entry is read under the first 7 characters of the
\* date and the group under its last 3 characters, the hyphen and the
\* two-digit day ("-05"); a mapping keyed by the bare two-digit day is not
\* found.
C4_DateSplitting ==
    cmd = "create-one" =>
        /\ Len(lookups) >= 1 => lookups[1] = <<"month", SubSeq(day, 1, 7)>>
        /\ Len(lookups) = 2 => lookups[2] = <<"day", SubSeq(day, 8, 10)>>
        /\ (CreateOneEnded /\ Len(day) = 10 /\ MonthPresent
                /\ AtoiOK(MonthEntry.BoardID)) =>
               (call.made <=> GroupUnder("-" \o SubSeq(day, 9, 10)) # "")

C4_Witness ==
    /\ CreateOneEnded
    /\ Len(lookups) = 2
    /\ GroupUnder(SubSeq(day, 9, 10)) = "tue_sep_5"
    /\ ~call.made


\* C5: CreateLogItem called with hours that are not a number ("abc", the
\* empty string, "2,5") returns the parse error naming the value, wrapping
\* the parser's error, and issues no request; with "2.5" or "3" the
\* validation passes and the mutation is issued.
C5_HoursValidated ==
    (cmd = "create-one" /\ call.made) =>
        /\ hours \in {"abc", "", "2,5"} =>
            /\ requests = <<>>
            /\ pc = "exit"
            /\ err.type = "CLIError"
            /\ err.msg = "hours = " \o hours
                   \o " (third arg): unable to parse hours as a number. Exiting."
            /\ err.cause # ""
        /\ hours \in {"2.5", "3"} =>
            /\ Len(requests) = 1
            /\ requests[1].op = "create_item"
            /\ pc \in {"mutate", "exit"}

C5_Witness ==
    /\ cmd = "create-one"
    /\ call.made
    /\ hours = "abc"
    /\ pc = "exit"
    /\ Contains(err.msg, "hours = abc")

\* JSON (RFC 8259) number: -? (0 | [1-9][0-9]*) (. [0-9]+)? ([eE] [+-]? [0-9]+)?
IsJSONNumber(s) ==
    LET i0   == IF Char(s, 1) = "-" THEN 2 ELSE 1
        i1   == IF Char(s, i0) = "0" THEN i0 + 1 ELSE DigitsEnd(s, i0)
        dot  == Char(s, i1) = "."
        i2   == IF dot THEN DigitsEnd(s, i1 + 1) ELSE i1
        exp  == Char(s, i2) \in {"e", "E"}
        j0   == IF Char(s, i2 + 1) \in {"+", "-"} THEN i2 + 2 ELSE i2 + 1
        j1   == DigitsEnd(s, j0)
        end  == IF exp THEN j1 ELSE i2
    IN  /\ i1 > i0
        /\ dot => i2 > i1 + 1
        /\ exp => j1 > j0
        /\ end = Len(s) + 1

\* Index of the first double quote of s at or after i (Len(s) + 1: none).
RECURSIVE QuoteAt(_, _)
QuoteAt(s, i) ==
    IF i > Len(s) \/ Char(s, i) = "\"" THEN i ELSE QuoteAt(s, i + 1)

\* s is the JSON text of an object with exactly the members k1 : "v1" (a
\* string) and k2 : n (a number), in this order.
IsPersonHoursObject(s, k1, v1, k2) ==
    LET a == QuoteAt(s, 3)          \* closes the first key
        b == QuoteAt(s, a + 3)      \* closes the first value
        c == QuoteAt(s, b + 3)      \* closes the second key
    IN  /\ SubSeq(s, 1, 2) = "{\""
        /\ SubSeq(s, 3, a - 1) = k1
        /\ SubSeq(s, a, a + 2) = "\":\""
        /\ SubSeq(s, a + 3, b - 1) = v1
        /\ SubSeq(s, b, b + 2) = "\",\""
        /\ SubSeq(s, b + 3, c - 1) = k2
        /\ SubSeq(s, c, c + 1) = "\":"
        /\ Char(s, Len(s)) = "}"
        /\ IsJSONNumber(SubSeq(s, c + 2, Len(s) - 1))
        /\ k1 # k2

\* C6: every mutation request carries as column values a well-formed JSON
\* object with exactly two members: the person column id mapped to the
\* logging user id, and the hours column id mapped to a JSON number.
C6_PayloadWellFormed ==
    (cmd = "create-one" /\ requests # <<>>) =>
        IsPersonHoursObject(requests[1].column_values, conf.boards.PersonColumnID,
                            conf.user.LoggingUserID, conf.boards.HoursColumnID)

\* C7: GetBoardByID answered with an empty list of boards returns a
\* remote-service error and the process does not panic.
C7_EmptyBoardsGuarded ==
    (/\ cmd = "admin-get-board-by-id"
     /\ pc \in {"exit", "panic"}
     /\ requests # <<>>
     /\ reply.err = ""
     /\ Len(reply.list) = 0) =>
        /\ ~panicked
        /\ err.type = "CLIError"
        /\ Contains(err.msg, "A problem occurred when contacting monday.com")

\* C8: when client.Query / client.Mutate fails, each of GetBoardByID,
\* GetBoardItems, CreateLogItem and GetPulseRelativeLink returns no result
\* and a CLIError whose message says a problem occurred contacting the
\* service, which wraps the failure itself and has exit code 1.
C8_RemoteErrorsWrapped ==
    (requests # <<>> /\ reply.err # "") =>
        /\ pc = "exit"
        /\ ~panicked
        /\ out = <<>>
        /\ err.type = "CLIError"
        /\ Contains(err.msg, "A problem occurred when contacting monday.com")
        /\ err.cause = reply.err
        /\ err.exitCode = 1

C8_Witness ==
    /\ cmd = "get-board-items"
    /\ pc = "exit"
    /\ requests # <<>>
    /\ requests[1].op = "boards_items"
    /\ Contains(reply.err, "connection refused")
    /\ err.cause = reply.err

VerifyText == "Please verify on monday.com whether a log entry was created or not"

\* C9: a failed create-one carries the "verify ... whether a log entry was
\* created" warning exactly when the mutation request had been issued.
C9_AmbiguityWarning ==
    (cmd = "create-one" /\ pc = "exit" /\ err # NilErr) =>
        (Contains(err.msg, VerifyText) <=> requests # <<>>)

C9_Witness ==
    /\ cmd = "create-one"
    /\ pc = "exit"
    /\ requests # <<>>
    /\ reply.err # ""
    /\ Contains(err.msg, VerifyText)

\* C10: update changes boards.toml only by the rename that follows a copy of
\* the whole response body into the temporary file that ended without error;
\* a copy that fails part-way leaves boards.toml as it was.
C10_ReplaceOnlyAfterFullCopy ==
    [][boardsFile' # boardsFile =>
        /\ cmd = "update"
        /\ pc = "copy"
        /\ body = <<>>
        /\ tmpFile = [exists |-> TRUE, data |-> BodyOf(httpResp)]
        /\ copied = httpResp.size
        /\ boardsFile' = tmpFile
        /\ ~tmpFile'.exists
        /\ err' = NilErr]_vars

C10_Witness ==
    /\ cmd = "update"
    /\ pc = "exit"
    /\ err.msg = "unexpected EOF"
    /\ copied >= 1
    /\ Len(body) >= 1
    /\ tmpFile.exists
    /\ boardsFile = OldBoardsFile

\* C11: whatever a reader decodes from boards.toml while update runs is the
\* whole file as it was before the update or the whole downloaded body,
\* never a file with part of the body.
C11_ReaderSeesWholeFile ==
    (cmd = "update" /\ observed # NotRead) =>
        \/ observed \in {NoFile, OldBoardsFile} /\ observed = boardsFile
        \/ observed \in {NoFile, OldBoardsFile} /\ pc = "exit" /\ err = NilErr
        \/ /\ httpResp # NoResponse
           /\ observed = [exists |-> TRUE, data |-> BodyOf(httpResp)]
           /\ pc = "exit"
           /\ err = NilErr

C11_Witness ==
    /\ cmd = "update"
    /\ pc = "copy"
    /\ copied >= 1
    /\ body # <<>>
    /\ Len(tmpFile.data) = copied
    /\ observed = OldBoardsFile
\* The user document decodes and lacks the access token or the user id.
UserFieldMissing ==
    /\ pathsErr = "none"
    /\ userDoc.err = ""
    /\ userDoc.conf.APIAccessToken = "" \/ userDoc.conf.LoggingUserID = ""

NamesToken(m) ==
    \/ Contains(m, "api_access_token") \/ Contains(m, "access token")
    \/ Contains(m, "APIAccessToken")

NamesUserID(m) ==
    \/ Contains(m, "logging_user_id") \/ Contains(m, "logging user")
    \/ Contains(m, "LoggingUserID")

\* C12 (as stated): a command that loads configuration with the access token
\* or the logging-user id empty fails with an error that names the missing
\* field(s).
C12_Original ==
    (cmd \in ConfCommands /\ pc = "exit" /\ UserFieldMissing) =>
        /\ err.type = "CLIError"
        /\ userDoc.conf.APIAccessToken = "" => NamesToken(err.msg)
        /\ userDoc.conf.LoggingUserID = "" => NamesUserID(err.msg)

\* C12 (amended): a command that loads configuration with the access token
\* or the logging-user id empty fails, before any request, with the one
\* error "Unable to parse user configuration file. Run 'mlog setup' for
\* error details.", exit code 1, which names neither field.
C12_UserFieldsRequired ==
    (cmd \in ConfCommands /\ pc # "start" /\ UserFieldMissing) =>
        /\ pc = "exit"
        /\ err.type = "CLIError"
        /\ err.msg = "Unable to parse user configuration file.\nRun 'mlog setup' for error details."
        /\ err.exitCode = 1
        /\ err.cause = ""
        /\ ~NamesToken(err.msg)
        /\ ~NamesUserID(err.msg)
        /\ requests = <<>>
        /\ ~Loaded

C12_Witness ==
    /\ cmd = "get-board-item-summary"
    /\ pc = "exit"
    /\ userDoc.err = ""
    /\ userDoc.conf.APIAccessToken = "tok"
    /\ userDoc.conf.LoggingUserID = ""
    /\ Contains(err.msg, "Unable to parse user configuration file")

\* loadConf has something to reject.
LoadFails ==
    \/ pathsErr # "none"
    \/ userDoc.err # ""
    \/ userDoc.conf.APIAccessToken = "" \/ userDoc.conf.LoggingUserID = ""
    \/ boardsDoc.err # ""
    \/ boardsDoc.conf.PersonColumnID = "" \/ boardsDoc.conf.HoursColumnID = ""

\* C13: a remote API request is issued only after both documents were
\* loaded with the access token, the user id and the two column ids
\* non-empty; a command whose configuration load fails ends with the load's
\* error and no request.
C13_NoRequestWithoutConfiguration ==
    /\ requests # <<>> =>
        /\ cmd \in ConfCommands
        /\ ~LoadFails
        /\ conf = [user |-> userDoc.conf, boards |-> boardsDoc.conf]
    /\ (cmd \in ConfCommands /\ pc # "start" /\ LoadFails) =>
        /\ pc = "exit"
        /\ requests = <<>>
        /\ reply = NoReply
        /\ err.type = "CLIError"
        /\ err.exitCode = 1
        /\ \/ Contains(err.msg, "unable to locate")
           \/ Contains(err.msg, "Unable to parse user configuration file")
           \/ Contains(err.msg, "Unable to parse boards configuration file")

C13_Witness ==
    /\ cmd = "admin-get-board-by-id"
    /\ pc = "exit"
    /\ userDoc = DefaultUserDoc
    /\ boardsDoc.err = ""
    /\ boardsDoc.conf.PersonColumnID = "person"
    /\ boardsDoc.conf.HoursColumnID = ""
    /\ requests = <<>>
    /\ err.type = "CLIError"

BoardsRejected ==
    \/ boardsDoc.err # ""
    \/ boardsDoc.conf.PersonColumnID = ""
    \/ boardsDoc.conf.HoursColumnID = ""

\* C14: with a valid user document, loadConf fails on the boards document
\* exactly when it does not decode or one of its column ids is empty; a
\* document without months loads, and pulse-link and admin-get-board-by-id
\* then issue their query.
C14_MonthsOptional ==
    (/\ cmd \in ConfCommands
     /\ pc # "start"
     /\ pathsErr = "none"
     /\ userDoc = DefaultUserDoc) =>
        /\ BoardsRejected <=>
               /\ ~Loaded
               /\ pc = "exit"
               /\ Contains(err.msg, "Unable to parse boards configuration file")
        /\ ~BoardsRejected => conf.boards = boardsDoc.conf
        /\ (/\ ~BoardsRejected
            /\ cmd \in {"pulse-link", "admin-get-board-by-id"}
            /\ pc # "loaded") => Len(requests) = 1

C14_Witness ==
    /\ cmd = "pulse-link"
    /\ Loaded
    /\ DOMAIN conf.boards.Months = {}
    /\ Len(requests) = 1
    /\ requests[1].op = "items"
\* setup got past loadConfPaths and returned.
SetupEnded == cmd = "setup" /\ pc = "exit" /\ pathsErr = "none"

HasLine(kind, text) ==
    \E i \in DOMAIN out : out[i].kind = kind /\ out[i].cells = <<text>>

\* The report holds the part that starts with the path of the document.
Reported(document) ==
    \E i \in DOMAIN out : out[i].kind = "path" /\ Contains(out[i].cells[1], document)

UserValid ==
    /\ userDoc.err = ""
    /\ userDoc.conf.APIAccessToken # ""
    /\ userDoc.conf.LoggingUserID # ""

BoardsValid ==
    /\ boardsDoc.err = ""
    /\ boardsDoc.conf.PersonColumnID # ""
    /\ boardsDoc.conf.HoursColumnID # ""

\* C15 (as stated): setup reports on the boards document whatever the
\* outcome of the user document's validation, and on the user document
\* whatever the outcome of the boards document's.
C15_Original ==
    SetupEnded => Reported("User configuration") /\ Reported("Boards configuration")

\* C15 (amended): setup always reports on the user document; it reports on
\* the boards document exactly when the user document is valid, and then
\* per field of the boards document; with an invalid user document it prints
\* "(skipping boards configuration)" and no line about the boards document.
C15_BoardsReportNeedsValidUser ==
    SetupEnded =>
        /\ Reported("User configuration")
        /\ Reported("Boards configuration") <=> UserValid
        /\ HasLine("skip", "(skipping boards configuration)") <=> ~UserValid
        /\ ~UserValid =>
            /\ ~HasLine("cross", "Missing person_column_id")
            /\ ~HasLine("cross", "Missing hours_column_id")
            /\ out[Len(out)].kind = "skip"
        /\ UserValid =>
            /\ HasLine("cross", "Missing person_column_id")
                   <=> (boardsDoc.err # "" \/ boardsDoc.conf.PersonColumnID = "")
            /\ HasLine("cross", "Missing hours_column_id")
                   <=> (boardsDoc.err # "" \/ boardsDoc.conf.HoursColumnID = "")

C15_Witness ==
    /\ SetupEnded
    /\ ~UserValid
    /\ boardsDoc.err = ""
    /\ boardsDoc.conf.PersonColumnID = ""
    /\ HasLine("skip", "(skipping boards configuration)")
    /\ ~Reported("Boards configuration")

\* C16 (as stated): when a document is missing or unparseable or a required
\* field is empty, setup prints its report and returns no error: the exit
\* code is 0.
C16_Original ==
    (SetupEnded /\ (~UserValid \/ ~BoardsValid)) =>
        /\ out # <<>>
        /\ err = NilErr
        /\ exitCodeOf(err) = 0

\* C16 (amended): setup prints its report without a panic, and then returns
\* nil exactly when both documents are valid; otherwise it returns a CLIError
\* (exit code 1) saying which configuration has validation errors, wrapping
\* the decoding error if there was one.
C16_SetupFailsOnMissingData ==
    SetupEnded =>
        /\ ~panicked
        /\ out # <<>>
        /\ out[1].kind = "path"
        /\ (UserValid /\ BoardsValid) <=> err = NilErr
        /\ (UserValid /\ BoardsValid) <=> HasLine("complete", "Setup complete without errors.")
        /\ ~UserValid =>
            /\ err.type = "CLIError"
            /\ Contains(err.msg, "The user configuration has one or more validation errors.")
            /\ err.cause = userDoc.err
            /\ exitCodeOf(err) = 1
        /\ (UserValid /\ ~BoardsValid) =>
            /\ err.type = "CLIError"
            /\ Contains(err.msg, "The boards configuration has one or more validation errors.")
            /\ err.cause = boardsDoc.err
            /\ exitCodeOf(err) = 1

C16_Witness ==
    /\ SetupEnded
    /\ UserValid
    /\ boardsDoc.err = ""
    /\ boardsDoc.conf.HoursColumnID = ""
    /\ HasLine("cross", "Missing hours_column_id")
    /\ exitCodeOf(err) = 1

\* The user document decodes with exactly one of the two fields empty.
OnlyTokenMissing ==
    /\ userDoc.err = ""
    /\ userDoc.conf.APIAccessToken = ""
    /\ userDoc.conf.LoggingUserID # ""

OnlyUserIDMissing ==
    /\ userDoc.err = ""
    /\ userDoc.conf.APIAccessToken # ""
    /\ userDoc.conf.LoggingUserID = ""

\* C17 (as stated): with exactly one of the two user fields empty, the
\* report marks that field as missing, does not mark the other as missing,
\* and marks the other as present with a check line.
C17_Original ==
    (SetupEnded /\ (OnlyTokenMissing \/ OnlyUserIDMissing)) =>
        /\ HasLine("cross", "Missing api_access_token") <=> OnlyTokenMissing
        /\ HasLine("cross", "Missing logging_user_id") <=> OnlyUserIDMissing
        /\ \E i \in DOMAIN out : out[i].kind = "check"

\* C17 (amended): with exactly one of the two user fields empty, the report
\* is the path of the user document, the one line "Missing <field>" for the
\* empty field, and "(skipping boards configuration)": the other field is
\* not reported as missing, and no line marks it as present.
C17_ExactlyTheMissingField ==
    (SetupEnded /\ (OnlyTokenMissing \/ OnlyUserIDMissing)) =>
        /\ Len(out) = 3
        /\ out[1].kind = "path"
        /\ out[2].kind = "cross"
        /\ out[2].cells = <<IF OnlyTokenMissing THEN "Missing api_access_token"
                            ELSE "Missing logging_user_id">>
        /\ out[3].kind = "skip"
        /\ \A i \in DOMAIN out : out[i].kind # "check"

C17_Witness ==
    /\ SetupEnded
    /\ OnlyUserIDMissing
    /\ HasLine("cross", "Missing logging_user_id")
    /\ ~HasLine("cross", "Missing api_access_token")
\* The items of the page the service returned to get-board-items or
\* get-board-item-summary.
ItemsFetched ==
    /\ cmd \in {"get-board-items", "get-board-item-summary"}
    /\ pc \in {"exit", "panic"}
    /\ reply.err = ""
    /\ Len(reply.list) = 1

Fetched == reply.list[1].Items

FetchedTitles == {Fetched[i].Title : i \in 1..Len(Fetched)}

Both10(a, b) == Len(a) = 10 /\ Len(b) = 10

\* The last two characters of two 10-character titles, compared character
\* by character.
SuffixOrder(a, b) == StrCompare(SubSeq(a, 9, 10), SubSeq(b, 9, 10))

AsGroup(title) == [Group |-> title, TotalHours |-> 0, PulseCount |-> 0]

\* C18 (as stated): on two titles of 10 characters both comparators order by
\* the last two characters; when a title is not 10 characters long both
\* compare the whole titles.
C18_Original ==
    ItemsFetched =>
        \A i, j \in 1..Len(Fetched) :
            LET a == Fetched[i]
                b == Fetched[j]
                s == SuffixOrder(a.Title, b.Title)
                c == IF cmd = "get-board-items" THEN itemCmp(a, b)
                     ELSE groupCmp(AsGroup(a.Title), AsGroup(b.Title))
            IN  /\ (Both10(a.Title, b.Title) /\ s # 0) => c = s
                /\ ~Both10(a.Title, b.Title) => c = StrCompare(a.Title, b.Title)

\* C18 (amended): on two titles of 10 characters whose last two characters
\* differ, both comparators order by those two characters.  Otherwise (a
\* title of another length, or equal last two characters) the comparator of
\* get-board-item-summary compares the whole titles and the comparator of
\* get-board-items compares the ids of the two items.
C18_ComparatorFallbacks ==
    ItemsFetched =>
        \A i, j \in 1..Len(Fetched) :
            LET a == Fetched[i]
                b == Fetched[j]
                s == SuffixOrder(a.Title, b.Title)
            IN  /\ itemCmp(a, b) =
                       IF Both10(a.Title, b.Title) /\ s # 0 THEN s
                       ELSE StrCompare(a.ID, b.ID)
                /\ groupCmp(AsGroup(a.Title), AsGroup(b.Title)) =
                       IF Both10(a.Title, b.Title) /\ s # 0 THEN s
                       ELSE StrCompare(a.Title, b.Title)

C18_Witness ==
    /\ cmd = "get-board-items"
    /\ ItemsFetched
    /\ pc = "exit"
    /\ Len(out) = 3
    /\ out[2].cells[1] = "Sprint 7"
    /\ out[2].cells[4] = "5678901232"
    /\ out[3].cells[1] = "Mon Sep 04"
    /\ out[3].cells[4] = "5678901234"

\* The rows of the printed table (the lines after the header).
Rows == SubSeq(out, 2, Len(out))

\* The two-digit day a 10-character title ends with.
DayNumber(title) == DecVal(SubSeq(title, 9, 10), 1, 0)

\* C19: when all the fetched titles are 10 characters long, the rows printed
\* by get-board-items and get-board-item-summary are in non-decreasing order
\* of the day number the title ends with; the rows of get-board-items are
\* the fetched items, each once, and the rows of get-board-item-summary the
\* fetched titles, each once.
C19_RowsSortedByDay ==
    (/\ ItemsFetched
     /\ pc = "exit"
     /\ err = NilErr
     /\ \A t \in FetchedTitles : Len(t) = 10) =>
        /\ out[1].kind = "header"
        /\ \A i, j \in 1..Len(Rows) :
               i < j => DayNumber(Rows[i].cells[1]) <= DayNumber(Rows[j].cells[1])
        /\ cmd = "get-board-items" =>
            /\ Len(Rows) = Len(Fetched)
            /\ \A it \in {Fetched[k] : k \in 1..Len(Fetched)} :
                   Cardinality({i \in 1..Len(Rows) :
                       Rows[i].cells = <<it.Title, it.Column_Values[1], it.Name, it.ID>>})
                     = Cardinality({i \in 1..Len(Fetched) : Fetched[i] = it})
        /\ cmd = "get-board-item-summary" =>
            /\ Len(Rows) = Cardinality(FetchedTitles)
            /\ {Rows[i].cells[1] : i \in 1..Len(Rows)} = FetchedTitles

C19_Witness ==
    /\ cmd = "get-board-items"
    /\ ItemsFetched
    /\ pc = "exit"
    /\ Len(Fetched) = 3
    /\ Fetched[1].Title = "Fri Sep 10"
    /\ Fetched[2].Title = "Tue Sep 05"
    /\ Fetched[3].Title = "Mon Sep 04"
    /\ Len(Rows) = 3
    /\ Rows[1].cells[1] = "Mon Sep 04"
    /\ Rows[2].cells[1] = "Tue Sep 05"
    /\ Rows[3].cells[1] = "Fri Sep 10"

\* The sum, in tenths, of the hours of the fetched items with indices in I.
RECURSIVE SumOfHours(_)
SumOfHours(I) ==
    IF I = {} THEN 0
    ELSE LET i == CHOOSE k \in I : TRUE
         IN  ParseFloatTenths(Fetched[i].Column_Values[1]) + SumOfHours(I \ {i})

RECURSIVE SumOfCounts(_)
SumOfCounts(I) ==
    IF I = {} THEN 0
    ELSE LET i == CHOOSE k \in I : TRUE
         IN  AtoiVal(Rows[i].cells[3]) + SumOfCounts(I \ {i})

\* C20: in the table get-board-item-summary prints, each title of the
\* fetched items has exactly one row, which shows the number of fetched
\* items with that title and the sum of their hours; the counts of all the
\* rows add up to the number of fetched items.
C20_SummaryAggregates ==
    (ItemsFetched /\ cmd = "get-board-item-summary" /\ pc = "exit" /\ err = NilErr) =>
        /\ \A t \in FetchedTitles :
            LET of == {i \in 1..Len(Fetched) : Fetched[i].Title = t}
                at == {i \in 1..Len(Rows) : Rows[i].cells[1] = t}
            IN  /\ Cardinality(at) = 1
                /\ \A i \in at :
                    /\ Rows[i].cells[3] = ToString(Cardinality(of))
                    /\ Rows[i].cells[2] = FormatTenths(SumOfHours(of))
        /\ \A i \in 1..Len(Rows) : Rows[i].cells[1] \in FetchedTitles
        /\ SumOfCounts(1..Len(Rows)) = Len(Fetched)

C20_Witness ==
    /\ cmd = "get-board-item-summary"
    /\ ItemsFetched
    /\ pc = "exit"
    /\ {Fetched[i].Column_Values : i \in 1..Len(Fetched)} = {<<"0.5">>, <<"1">>, <<"1.5">>}
    /\ Len(Rows) = 1
    /\ Rows[1].cells = <<"Mon Sep 04", "3", "3">>

\* The process has ended through customErrorHandler.
Exited == exitCode # Running

\* C21: an invocation whose action returned no error ends with exit status
\* 0, and one whose action returned an error ends with exit status 1,
\* whether newCLIError built the error or not.
C21_ExitCodeFollowsError ==
    Exited =>
        /\ err = NilErr => exitCode = <<0>>
        /\ err # NilErr => exitCode = <<1>>

C21_Witness ==
    /\ Exited
    /\ cmd = "update"
    /\ err.type = "plain"
    /\ exitCode = <<1>>

\* C22 as stated: with --debug a failing command prints the stack and the
\* wrapped cause, without it only the short message.
C22_Original ==
    (Exited /\ err # NilErr) =>
        /\ stderr.any
        /\ debug => stderr.stack /\ Contains(stderr.text, err.cause)
        /\ ~debug => /\ ~stderr.stack
                     /\ err.cause # "" => ~Contains(stderr.text, err.cause)

\* C22: a failing command prints one message.  For an error newCLIError
\* built, --debug prints the message, the exit code, the wrapped cause and
\* the stack, and without --debug only the short message is printed, never
\* the cause or the stack.  For any other error the text of the error is
\* printed, without a stack, whether --debug is set or not.
C22_VerbosityFollowsDebug ==
    (Exited /\ err # NilErr) =>
        /\ stderr.any
        /\ err.type = "CLIError" /\ debug =>
            /\ stderr.stack
            /\ Contains(stderr.text, err.msg)
            /\ Contains(stderr.text, "Exit code: 1")
            /\ Contains(stderr.text, err.cause)
        /\ err.type = "CLIError" /\ ~debug =>
            /\ ~stderr.stack
            /\ stderr.text = err.msg
            /\ err.cause # "" => ~Contains(stderr.text, err.cause)
        /\ err.type # "CLIError" => ~stderr.stack /\ stderr.text = err.msg

C22_Witness ==
    /\ Exited
    /\ debug
    /\ err.type = "CLIError"
    /\ err.cause # ""
    /\ stderr.stack
    /\ Contains(stderr.text, err.cause)

\* The remote operation has returned to its caller.
Replied == reply # NoReply

\* C23: an invocation issues at most one remote API request; after a reply,
\* failed or not, none follows, and a page of items that carries a cursor
\* to a next page is the only page the two item commands ask for.
C23_AtMostOneRequest ==
    /\ Len(requests) <= 1
    /\ (Replied /\ pc \in {"exit", "panic"}) => Len(requests) = 1
    /\ Replied => pc # "query"

C23_Witness ==
    /\ cmd = "get-board-items"
    /\ pc = "exit"
    /\ err = NilErr
    /\ Len(reply.list) = 1
    /\ reply.list[1].Cursor # ""
    /\ Len(requests) = 1
    /\ Exited

\* The first check of createOne that the arguments and the boards mapping
\* fail, in the order date length (1), month present (2), board id an
\* integer (3), day present (4), hours numeric (5); 0 when all pass.
FirstFailingCheck ==
    IF Len(day) # 10 THEN 1
    ELSE IF ~MonthPresent \/ MonthEntry.BoardID = "" THEN 2
    ELSE IF ~AtoiOK(MonthEntry.BoardID) THEN 3
    ELSE IF GroupUnder(SubSeq(day, 8, 10)) = "" THEN 4
    ELSE IF ~ParseFloatOK(hours) THEN 5
    ELSE 0

\* The message of the error each check returns.
MessageOfCheck(k) ==
    CASE k = 1 -> msgDayFormat(day)
      [] k = 2 -> msgMonthBoardIDNotFound(SubSeq(day, 1, 7))
      [] k = 3 -> msgBoardIDNotNumber(SubSeq(day, 1, 7))
      [] k = 4 -> msgDayGroupNotFound(SubSeq(day, 1, 7), SubSeq(day, 8, 10))
      [] k = 5 -> msgHoursNotNumber(hours)

\* C24: once create-one has loaded the configuration and run createOne, the
\* mutation has been issued exactly when the five checks all pass, and
\* otherwise createOne has returned the error of the first check that fails
\* in the order date length, month, board id, day, hours.
C24_ChecksInOrder ==
    (cmd = "create-one" /\ Loaded /\ pc \in {"mutate", "exit"}) =>
        /\ FirstFailingCheck = 0 <=> Len(requests) = 1
        /\ Len(requests) = 1 => requests[1].op = "create_item"
        /\ FirstFailingCheck # 0 =>
            /\ pc = "exit"
            /\ err.type = "CLIError"
            /\ err.msg = MessageOfCheck(FirstFailingCheck)

\* A non-numeric board id, a day the month does not list and hours that are
\* no number: the board id error is the one returned.
C24_Witness ==
    /\ cmd = "create-one"
    /\ Loaded
    /\ pc = "exit"
    /\ Len(day) = 10
    /\ MonthPresent
    /\ MonthEntry.BoardID = "abc"
    /\ GroupUnder(SubSeq(day, 8, 10)) = ""
    /\ hours = "abc"
    /\ err.msg = msgBoardIDNotNumber("2023-09")
    /\ requests = <<>>

\* A comparator is a consistent ordering of a set: reversing the arguments
\* reverses the sign, and "less than" is transitive.
Antisymmetric(cmpOf(_, _), S) ==
    \A a, b \in S : (cmpOf(a, b) < 0) <=> (cmpOf(b, a) > 0)

Transitive(cmpOf(_, _), S) ==
    \A a, b, c \in S : (cmpOf(a, b) < 0 /\ cmpOf(b, c) < 0) => cmpOf(a, c) < 0

\* What get-board-item-summary prints when the iteration over groupMap
\* yields the groups in the order o.
PrintedFor(o) ==
    LET gm == summarise(Fetched).groupMap
    IN  SummaryTable(SortGroups([i \in DOMAIN o |-> gm[o[i]]]))

\* C25: over the fetched items and titles, 10 characters long or not, the
\* two comparators are antisymmetric and transitive, and the table
\* get-board-item-summary printed is the one every iteration order of the
\* group map leads to.
C25_ConsistentOrdering ==
    (ItemsFetched /\ pc = "exit" /\ err = NilErr) =>
        /\ cmd = "get-board-items" =>
            LET S == {Fetched[i] : i \in 1..Len(Fetched)}
            IN  Antisymmetric(itemCmp, S) /\ Transitive(itemCmp, S)
        /\ cmd = "get-board-item-summary" =>
            LET S == {AsGroup(t) : t \in FetchedTitles}
            IN  /\ Antisymmetric(groupCmp, S)
                /\ Transitive(groupCmp, S)
                /\ \A o \in GroupOrders(summarise(Fetched).groupMap) : out = PrintedFor(o)

\* C26: update replaces the boards file only when the GET returned a
\* success status: after a response with any other status, the boards file
\* is what it was before the update, however much of the body was received.
C26_ReplacedOnlyOnSuccess ==
    (cmd = "update" /\ httpResp # NoResponse /\ httpResp.status \notin 200..299) =>
        /\ boardsFile \in {NoFile, OldBoardsFile}
        /\ \A i \in 1..Len(boardsFile.data) : boardsFile.data[i][1] # "html"

\* The file boards.toml denotes, as a reader opening it now finds it.
Installed == disk.data[disk.boards]

\* A whole body of size chunks, whichever process wrote each chunk.
WholeBody(data, size) ==
    /\ Len(data) = size
    /\ \A i \in 1..size : data[i].from \in Updaters /\ data[i].at = i

\* C27: while two updates run at the same time on the one temporary path,
\* boards.toml always denotes either the file from before or a whole
\* downloaded body, never an empty or partial one.
C27_NoPartialInstall ==
    \A p \in Updaters :
        updaters[p].pc # "idle" =>
            Installed = OldData \/ WholeBody(Installed, updaters[p].size)

\* The requests that change the remote board.
Mutations == {i \in 1..Len(requests) : requests[i].op = "create_item"}

\* C28: no step of any command changes what the user configuration file
\* holds; only steps of update change boards.toml or its temporary file,
\* and the configuration a command decoded stays as decoded; only create-one
\* sends a request that changes the remote board.
C28_EffectsConfined ==
    [][/\ userDoc' = userDoc
       /\ boardsDoc' = boardsDoc
       /\ cmd # "update" => boardsFile' = boardsFile /\ tmpFile' = tmpFile
       /\ cmd # "create-one" => Mutations' = {}]_vars

C28_Witness ==
    /\ cmd = "pulse-link"
    /\ Exited
    /\ err = NilErr
    /\ Len(requests) = 1
    /\ Mutations = {}
    /\ boardsFile = OldBoardsFile
    /\ tmpFile = NoFile

\* The fetched items whose hours text is no number, and those that have no
\* hours column value at all.
Unparseable ==
    {i \in 1..Len(Fetched) :
        Len(Fetched[i].Column_Values) > 0 /\ ~ParseFloatOK(Fetched[i].Column_Values[1])}

WithoutHours == {i \in 1..Len(Fetched) : Len(Fetched[i].Column_Values) = 0}

\* C29: when the hours text of a fetched item is no number (the empty text
\* included), get-board-item-summary prints nothing at all; and when every
\* item has an hours text it returns the error that names the text and the
\* pulse id of the first such item.
C29_SummaryAllOrNothing ==
    (ItemsFetched /\ cmd = "get-board-item-summary" /\ Unparseable # {}) =>
        /\ out = <<>>
        /\ WithoutHours = {} =>
            LET i == CHOOSE k \in Unparseable : \A j \in Unparseable : k <= j
            IN  /\ pc = "exit"
                /\ err.type = "CLIError"
                /\ err.msg = msgItemHoursNotNumber(Fetched[i].Column_Values[1], Fetched[i].ID)

\* Two items with parseable hours and one with the empty text.
C29_Witness ==
    /\ ItemsFetched
    /\ cmd = "get-board-item-summary"
    /\ Len(Fetched) = 3
    /\ Unparseable = {3}
    /\ WithoutHours = {}
    /\ Fetched[3].Column_Values = <<"">>
    /\ err.msg = "hours =  (pulse_id = 5678901231): not a number. Exiting."
    /\ out = <<>>
    /\ Exited

\* C30: get-board-items, get-board-item-summary and pulse-link never die of
\* an index out of range on what the service returned: an empty list of
\* boards or of items, or an item without an hours column value, ends the
\* command with an error or an empty result.
C30_ReadCommandsNeverCrash ==
    cmd \in {"get-board-items", "get-board-item-summary", "pulse-link"} =>
        /\ ~panicked
        /\ pc # "panic"

====
